---- MODULE Spec2Model ----
(***************************************************************************)
(* Progress and quiz-session engine of the Mandarin MCP server:            *)
(* QuizManager (testing.py) over MandarinDatabase (database.py).           *)
(*                                                                         *)
(* Every handler is an asyncio coroutine.  A coroutine runs without        *)
(* interruption between two awaits; the only awaits are the store          *)
(* accesses on the one shared aiosqlite connection.  Each action below is  *)
(* one such segment: the store access the call was waiting for, followed   *)
(* by the Python code up to the next await.  The tables are the tables as  *)
(* the shared connection sees them (a statement's effect is visible to     *)
(* every coroutine as soon as it has run; commit is a further await).      *)
(*                                                                         *)
(* Strings are tuples of one-character strings, so that strip, lower,      *)
(* upper, split and the substring test are computed, not assumed.          *)
(***************************************************************************)
EXTENDS Integers, Sequences, FiniteSets, TLC

VARIABLES
    vocabulary,      \* table vocabulary: sequence of rows in id order
    user_progress,   \* table user_progress: set of rows
    quiz_results,    \* table quiz_results: sequence of rows in id order
    active_quizzes,  \* QuizManager.active_quizzes: quiz_id -> Quiz
    uuid_count,      \* number of uuid4() values drawn so far
    calls,           \* the invocations: arguments, position, locals, outcome
    db_available,    \* whether a store access succeeds at this moment
    clock            \* datetime.now(), in days

vars == <<vocabulary, user_progress, quiz_results, active_quizzes, uuid_count,
          calls, db_available, clock>>

----------------------------------------------------------------------------
(* Bounds of the model *)

\* number of invocations in one behaviour of Spec and SeqSpec
MaxCalls == 3
\* scoring events per behaviour of PolicySpec
MaxSeen == 6
\* largest value of the clock
MaxClock == 1
\* sessions built per behaviour of LedgerSpec
MaxBuilds == 2
\* scoring events between two clears in LedgerSpec
MaxLedger == 3
\* longest raw answer enumerated in CheckSpec
MaxAnswerLen == 2
\* builds per behaviour of BuildSpec
MaxChoiceBuilds == 1

Calls == 1..MaxCalls

----------------------------------------------------------------------------
(* Strings *)

Whitespace == {" "}

LowerOf == ("A" :> "a") @@ ("B" :> "b") @@ ("C" :> "c") @@ ("D" :> "d")

UpperOf == ("a" :> "A") @@ ("b" :> "B") @@ ("c" :> "C") @@ ("d" :> "D")

\* str.lower()
lower(s) == [k \in 1..Len(s) |-> IF s[k] \in DOMAIN LowerOf THEN LowerOf[s[k]] ELSE s[k]]

\* str.upper()
upper(s) == [k \in 1..Len(s) |-> IF s[k] \in DOMAIN UpperOf THEN UpperOf[s[k]] ELSE s[k]]

\* str.strip(): drop leading and trailing whitespace
strip(s) ==
    LET keep == {k \in 1..Len(s) : s[k] \notin Whitespace}
        first == CHOOSE k \in keep : \A j \in keep : k <= j
        last == CHOOSE k \in keep : \A j \in keep : k >= j
    IN  IF keep = {} THEN <<>> ELSE SubSeq(s, first, last)

\* str.split(','): the pieces between the commas, empty pieces included
RECURSIVE split(_)
split(s) ==
    LET commas == {k \in 1..Len(s) : s[k] = ","}
        first == CHOOSE k \in commas : \A j \in commas : k <= j
    IN  IF commas = {} THEN <<s>>
        ELSE <<SubSeq(s, 1, first - 1)>> \o split(SubSeq(s, first + 1, Len(s)))

\* a in b, for strings
contains(b, a) ==
    \E k \in 0..(Len(b) - Len(a)) : SubSeq(b, k + 1, k + Len(a)) = a

----------------------------------------------------------------------------
(* The vocabulary the store is loaded with *)

VocabularyRows ==
    << [id |-> 1, chinese |-> <<"r">>, pinyin |-> <<"r">>, english |-> <<"a">>,
        hsk_level |-> 1],
       [id |-> 2, chinese |-> <<"h">>, pinyin |-> <<"h">>, english |-> <<"b">>,
        hsk_level |-> 1] >>

VocabularyIds == {VocabularyRows[k].id : k \in 1..Len(VocabularyRows)}

\* the levels a caller asks a quiz for: level 2 holds no item
Levels == {1, 2}

Directions == {"chinese_to_english"}

\* the num_questions a caller asks for: up to the size of the largest pool
\* (level 2 makes the request exceed the pool)
QuestionCounts == 1..Len(VocabularyRows)

\* the answers a caller types
AnswerPool == {<<"a">>, <<"b">>}

\* the answer lists a caller submits: fewer, as many and more answers than a
\* quiz has questions all occur
AnswerLists == UNION {[1..n -> AnswerPool] : n \in 0..Len(VocabularyRows)}

----------------------------------------------------------------------------
(* Answer scoring: QuizManager.check_answer *)

\* check_answer whose translation branch accepts no answer that merely
\* contains a variant
check_answer_no_superset(question, user_answer) ==
    LET ua == strip(user_answer) IN
    IF question.question_type = "multiple_choice"
    THEN LET correct_answer == upper(question.correct_answer)
             is_correct == upper(ua) = correct_answer
         IN  [is_correct |-> is_correct,
              feedback |-> IF is_correct THEN <<"Correct!">>
                           ELSE <<"Incorrect. The correct answer is", correct_answer,
                                  question.choices[correct_answer]>>]
    ELSE LET correct_answer == lower(question.correct_answer)
             user_answer_lower == lower(ua)
             pieces == split(correct_answer)
             acceptable_answers == [k \in 1..Len(pieces) |-> lower(strip(pieces[k]))]
             is_correct ==
                 \E k \in 1..Len(acceptable_answers) :
                     \/ user_answer_lower = acceptable_answers[k]
                     \/ contains(acceptable_answers[k], user_answer_lower)
         IN  [is_correct |-> is_correct,
              feedback |-> IF is_correct THEN <<"Correct!">>
                           ELSE <<"Incorrect. The correct answer is:",
                                  question.correct_answer>>]

\* check_answer whose multiple-choice branch compares the answer as typed
check_answer_letter_as_typed(question, user_answer) ==
    LET ua == strip(user_answer) IN
    IF question.question_type = "multiple_choice"
    THEN LET correct_answer == upper(question.correct_answer)
             is_correct == ua = correct_answer
         IN  [is_correct |-> is_correct,
              feedback |-> IF is_correct THEN <<"Correct!">>
                           ELSE <<"Incorrect. The correct answer is", correct_answer,
                                  question.choices[correct_answer]>>]
    ELSE LET correct_answer == lower(question.correct_answer)
             user_answer_lower == lower(ua)
             pieces == split(correct_answer)
             acceptable_answers == [k \in 1..Len(pieces) |-> lower(strip(pieces[k]))]
             is_correct ==
                 \E k \in 1..Len(acceptable_answers) :
                     \/ user_answer_lower = acceptable_answers[k]
                     \/ contains(acceptable_answers[k], user_answer_lower)
                     \/ contains(user_answer_lower, acceptable_answers[k])
         IN  [is_correct |-> is_correct,
              feedback |-> IF is_correct THEN <<"Correct!">>
                           ELSE <<"Incorrect. The correct answer is:",
                                  question.correct_answer>>]

check_answer(question, user_answer) ==
    LET ua == strip(user_answer) IN
    IF question.question_type = "multiple_choice"
    THEN LET correct_answer == upper(question.correct_answer)
             is_correct == upper(ua) = correct_answer
         IN  [is_correct |-> is_correct,
              feedback |-> IF is_correct THEN <<"Correct!">>
                           ELSE <<"Incorrect. The correct answer is", correct_answer,
                                  question.choices[correct_answer]>>]
    ELSE LET correct_answer == lower(question.correct_answer)
             user_answer_lower == lower(ua)
             pieces == split(correct_answer)
             acceptable_answers == [k \in 1..Len(pieces) |-> lower(strip(pieces[k]))]
             is_correct ==
                 \E k \in 1..Len(acceptable_answers) :
                     \/ user_answer_lower = acceptable_answers[k]
                     \/ contains(acceptable_answers[k], user_answer_lower)
                     \/ contains(user_answer_lower, acceptable_answers[k])
         IN  [is_correct |-> is_correct,
              feedback |-> IF is_correct THEN <<"Correct!">>
                           ELSE <<"Incorrect. The correct answer is:",
                                  question.correct_answer>>]

----------------------------------------------------------------------------
(* Mastery policy: the arithmetic of MandarinDatabase.update_progress *)

Max(a, b) == IF a >= b THEN a ELSE b

Min(a, b) == IF a <= b THEN a ELSE b

\* days_map with the offsets of levels 1 and 2 exchanged
days_map_exchanged == (0 :> 1) @@ (1 :> 7) @@ (2 :> 3) @@ (3 :> 14) @@ (4 :> 30) @@ (5 :> 60)

\* days until the next review, by mastery level
days_map == (0 :> 1) @@ (1 :> 3) @@ (2 :> 7) @@ (3 :> 14) @@ (4 :> 30) @@ (5 :> 60)

mastery_change(correct) == IF correct THEN 1 ELSE -1

\* new_mastery without its upper clamp
new_mastery_no_min(mastery_level, correct) ==
    Max(0, mastery_level + mastery_change(correct))

new_mastery(mastery_level, correct) ==
    Max(0, Min(5, mastery_level + mastery_change(correct)))

initial_mastery(correct) == IF correct THEN 1 ELSE 0

----------------------------------------------------------------------------
(* The store: statements of MandarinDatabase on the shared connection *)

\* SELECT * FROM vocabulary WHERE hsk_level = ?   (limit=None)
get_vocabulary_by_hsk_level(hsk_level) ==
    SelectSeq(vocabulary, LAMBDA row : row.hsk_level = hsk_level)

\* SELECT * FROM user_progress WHERE vocabulary_id = ?  and fetchone():
\* <<>> is None
SelectProgress(vocabulary_id) ==
    LET rows == {r \in user_progress : r.vocabulary_id = vocabulary_id}
    IN  IF rows = {} THEN <<>> ELSE <<CHOOSE r \in rows : TRUE>>

\* CHECK(mastery_level BETWEEN 0 AND 5)
MasteryCheck(mastery_level) == mastery_level \in 0..5

\* FOREIGN KEY (vocabulary_id) REFERENCES vocabulary(id), foreign_keys = ON
ForeignKeyCheck(vocabulary_id) ==
    \E k \in 1..Len(vocabulary) : vocabulary[k].id = vocabulary_id

\* UniqueCheck letting every row in
UniqueCheckOff(vocabulary_id) == TRUE

\* UNIQUE(vocabulary_id)
UniqueCheck(vocabulary_id) ==
    \A r \in user_progress : r.vocabulary_id # vocabulary_id

\* UpdateProgressRows with times_seen left as it was
UpdateProgressRowsKeepsSeen(vocabulary_id, mastery, correct, now, days) ==
    {IF r.vocabulary_id = vocabulary_id
       THEN [r EXCEPT !.mastery_level = mastery,
                      !.times_correct = @ + (IF correct THEN 1 ELSE 0),
                      !.times_incorrect = @ + (IF correct THEN 0 ELSE 1),
                      !.last_reviewed = now,
                      !.next_review = now + days]
       ELSE r : r \in user_progress}

\* UPDATE user_progress SET ... WHERE vocabulary_id = ?: the counters are
\* incremented by the statement, the mastery level is the parameter
UpdateProgressRows(vocabulary_id, mastery, correct, now, days) ==
    {IF r.vocabulary_id = vocabulary_id
       THEN [r EXCEPT !.mastery_level = mastery,
                      !.times_seen = @ + 1,
                      !.times_correct = @ + (IF correct THEN 1 ELSE 0),
                      !.times_incorrect = @ + (IF correct THEN 0 ELSE 1),
                      !.last_reviewed = now,
                      !.next_review = now + days]
       ELSE r : r \in user_progress}

\* INSERT INTO user_progress ... VALUES (?, ?, 1, ?, ?, ?, datetime(?, '+1 day')):
\* the clock counts whole days, so datetime(now, '+N days') is now + N
InsertProgressRow(vocabulary_id, mastery, correct, now) ==
    user_progress \cup
        {[vocabulary_id |-> vocabulary_id,
          mastery_level |-> mastery,
          times_seen |-> 1,
          times_correct |-> IF correct THEN 1 ELSE 0,
          times_incorrect |-> IF correct THEN 0 ELSE 1,
          last_reviewed |-> now,
          next_review |-> now + 1]}

\* correct_answers / total_questions * 100, kept as an exact fraction
score_percentage(correct_answers, total_questions) ==
    IF total_questions > 0
    THEN [num |-> correct_answers * 100, den |-> total_questions]
    ELSE [num |-> 0, den |-> 1]

\* round1 cutting the digits after the first decimal
round1_down(x) == (x.num * 10) \div x.den

\* round(x, 1), in tenths: the nearest tenth, a tie to the even tenth
round1(x) ==
    LET scaled == x.num * 10
        q == scaled \div x.den
        twice == 2 * (scaled % x.den)
    IN  IF twice > x.den \/ (twice = x.den /\ q % 2 = 1) THEN q + 1 ELSE q

\* INSERT INTO quiz_results ... of record_quiz_result
QuizResultRow(quiz_type, hsk_level, total_questions, correct_answers, duration_seconds) ==
    [quiz_type |-> quiz_type,
     hsk_level |-> hsk_level,
     total_questions |-> total_questions,
     correct_answers |-> correct_answers,
     score_percentage |-> score_percentage(correct_answers, total_questions),
     duration_seconds |-> duration_seconds]

----------------------------------------------------------------------------
(* Invocations *)

\* the text of an exception and the numbers formatted into it
NoMessage == [text |-> "", quiz_id |-> 0, expected |-> 0, got |-> 0]

NoOutcome == [exc |-> "", msg |-> NoMessage, value |-> <<>>]

Returned(value) == [exc |-> "none", msg |-> NoMessage, value |-> <<value>>]

Raised(exc, msg) == [exc |-> exc, msg |-> msg, value |-> <<>>]

\* a slot no invocation has used; the fields after pc are the arguments and
\* the locals of the coroutine (quiz is <<>> until line 274 binds it); confirm is
\* the argument of clear_progress, question and user_answer are those of
\* check_answer (question is <<>> in every other call); item is the row
\* add_vocabulary is given and lastrowid the id its INSERT drew; total_studied
\* and mastery_breakdown are locals of get_progress_stats
IdleCall ==
    [op |-> "idle", pc |-> "idle",
     hsk_level |-> 0, num_questions |-> 0, direction |-> "",
     quiz_id |-> 0, answers |-> <<>>,
     quiz |-> <<>>, i |-> 0, correct_count |-> 0, results |-> <<>>, duration |-> 0,
     vocabulary_id |-> 0, correct |-> FALSE,
     existing |-> <<>>, now |-> 0, mastery |-> 0, days |-> 0,
     confirm |-> FALSE, question |-> <<>>, user_answer |-> <<>>,
     item |-> <<>>, lastrowid |-> 0, total_studied |-> 0, mastery_breakdown |-> <<>>,
     outcome |-> NoOutcome]

\* the coroutine has ended: its frame is gone, its arguments and outcome stay
Finished(rec, outcome) ==
    [IdleCall EXCEPT !.op = rec.op, !.pc = "done",
                     !.hsk_level = rec.hsk_level, !.num_questions = rec.num_questions,
                     !.direction = rec.direction,
                     !.quiz_id = rec.quiz_id, !.answers = rec.answers,
                     !.vocabulary_id = IF rec.op = "update_progress"
                                       THEN rec.vocabulary_id ELSE 0,
                     !.correct = IF rec.op = "update_progress"
                                 THEN rec.correct ELSE FALSE,
                     !.confirm = rec.confirm,
                     !.question = rec.question, !.user_answer = rec.user_answer,
                     !.item = rec.item,
                     !.outcome = outcome]

InFlight(c) == calls[c].pc \notin {"idle", "done"}

NoCallInFlight == \A c \in Calls : ~InFlight(c)

\* invocations take the slots in order
Dispatchable(c) ==
    /\ calls[c].pc = "idle"
    /\ \A d \in 1..(c - 1) : calls[d].pc # "idle"

\* StoreRaises with a cleanup that drops the session of the failing call
StoreRaisesAndRetires(c) ==
    /\ calls' = [calls EXCEPT ![c] = Finished(@, Raised("OperationalError", NoMessage))]
    /\ active_quizzes' = [q \in DOMAIN active_quizzes \ {calls[c].quiz_id} |->
                             active_quizzes[q]]
    /\ UNCHANGED <<vocabulary, user_progress, quiz_results, uuid_count, db_available,
                   clock>>

\* an exception of the store propagates out of the coroutine: no handler,
\* no cleanup (testing.py has no try around its awaits)
StoreRaises(c) ==
    /\ calls' = [calls EXCEPT ![c] = Finished(@, Raised("OperationalError", NoMessage))]
    /\ UNCHANGED <<vocabulary, user_progress, quiz_results, active_quizzes,
                   uuid_count, db_available, clock>>

----------------------------------------------------------------------------
(* Answer checking called on its own: the questions and the raw answers *)

\* the characters a caller types
AnswerAlphabet == {"a", "b", "B", " ", ","}

\* every string over the alphabet of length n
RECURSIVE StringsOfLength(_)
StringsOfLength(n) ==
    IF n = 0 THEN {<<>>}
    ELSE {Append(t, ch) : t \in StringsOfLength(n - 1), ch \in AnswerAlphabet}

person == <<"p", "e", "r", "s", "o", "n">>

people == <<"p", "e", "o", "p", "l", "e">>

\* the raw answers: every short string, and the answers of the tests
RawAnswers ==
    UNION {StringsOfLength(n) : n \in 0..MaxAnswerLen}
        \cup {person, people, person \o <<"s">>, <<" ", "b", " ">>, <<"a", "b", "a">>}

\* the stored expected answers of translation questions: one variant, several
\* variants with and without blanks, a variant in capitals, an empty variant
ExpectedAnswers ==
    {<<"a">>, <<"a", "b">>, <<"a", ",", "b">>, <<"a", ",", " ", "b", "a">>,
     <<"B", "a">>, <<"a", ",">>, person \o <<",", " ">> \o people}

TranslationQuestions ==
    {[question |-> <<"What does", <<"r">>, <<"r">>, "mean in English?">>,
      vocab_id |-> 1,
      correct_answer |-> expected,
      question_type |-> "translation",
      choices |-> <<>>] : expected \in ExpectedAnswers}

Letters == <<<<"A">>, <<"B">>, <<"C">>, <<"D">>>>

\* the choices dictionary of a question: letter -> candidate text
ChoicesOf(texts) ==
    [letter \in {Letters[k] : k \in 1..4} |->
        texts[CHOOSE k \in 1..4 : Letters[k] = letter]]

\* multiple-choice questions as generate_multiple_choice_quiz stores them: the
\* expected answer is one of the four letters
MultipleChoiceQuestions ==
    {[question |-> <<"What does", <<"r">>, <<"r">>, "mean?">>,
      vocab_id |-> 1,
      correct_answer |-> Letters[k],
      question_type |-> "multiple_choice",
      choices |-> ChoicesOf(<<<<"a">>, <<"b">>, <<"a", "b">>, <<"b", "a">>>>)] :
        k \in 1..4}

\* a caller invokes check_answer: it has no await and returns at once
CheckAnswer(c, question, user_answer) ==
    /\ Dispatchable(c)
    /\ LET started == [IdleCall EXCEPT !.op = "check_answer",
                                       !.question = <<question>>,
                                       !.user_answer = user_answer]
           checked == check_answer(question, user_answer)
       IN  calls' = [calls EXCEPT ![c] = Finished(started, Returned(checked))]
    /\ UNCHANGED <<vocabulary, user_progress, quiz_results, active_quizzes,
                   uuid_count, db_available, clock>>

----------------------------------------------------------------------------
(* Quiz building: QuizManager.generate_translation_quiz *)

\* Samples drawing with replacement
SamplesWithRepeats(vocab_list, n) ==
    {[k \in 1..n |-> vocab_list[pick[k]]] : pick \in [1..n -> 1..Len(vocab_list)]}

\* random.sample(vocab_list, n): n different rows, in any order
Samples(vocab_list, n) ==
    {[k \in 1..n |-> vocab_list[pick[k]]] :
        pick \in {f \in [1..n -> 1..Len(vocab_list)] :
                    \A a, b \in 1..n : a # b => f[a] # f[b]}}

TranslationQuestion(vocab, direction) ==
    IF direction = "chinese_to_english"
    THEN [question |-> <<"What does", vocab.chinese, vocab.pinyin, "mean in English?">>,
          vocab_id |-> vocab.id,
          correct_answer |-> strip(lower(vocab.english)),
          question_type |-> "translation",
          choices |-> <<>>]
    ELSE [question |-> <<"How do you say", vocab.english, vocab.pinyin, "in Chinese?">>,
          vocab_id |-> vocab.id,
          correct_answer |-> vocab.chinese,
          question_type |-> "translation",
          choices |-> <<>>]

\* Quiz.__init__ with the completion flag already set
QuizAlreadyCompleted(quiz_id, hsk_level, questions, quiz_type) ==
    [quiz_id |-> quiz_id, hsk_level |-> hsk_level, questions |-> questions,
     quiz_type |-> quiz_type, start_time |-> clock, is_completed |-> TRUE]

\* Quiz.__init__
Quiz(quiz_id, hsk_level, questions, quiz_type) ==
    [quiz_id |-> quiz_id, hsk_level |-> hsk_level, questions |-> questions,
     quiz_type |-> quiz_type, start_time |-> clock, is_completed |-> FALSE]

\* a caller invokes generate_translation_quiz: the coroutine runs to its
\* first await, the SELECT of the level's vocabulary
TakeQuiz(c, hsk_level, num_questions, direction) ==
    /\ Dispatchable(c)
    /\ calls' = [calls EXCEPT ![c] =
                    [IdleCall EXCEPT !.op = "generate_translation_quiz",
                                     !.pc = "fetch_vocabulary",
                                     !.hsk_level = hsk_level,
                                     !.num_questions = num_questions,
                                     !.direction = direction]]
    /\ UNCHANGED <<vocabulary, user_progress, quiz_results, active_quizzes,
                   uuid_count, db_available, clock>>

\* the SELECT returns; sample, build the questions, register the session
BuildQuiz(c) ==
    /\ calls[c].pc = "fetch_vocabulary"
    /\ IF ~db_available THEN StoreRaises(c)
       ELSE LET vocab_list == get_vocabulary_by_hsk_level(calls[c].hsk_level)
                n == IF Len(vocab_list) < calls[c].num_questions
                     THEN Len(vocab_list) ELSE calls[c].num_questions
            IN  \E selected \in Samples(vocab_list, n) :
                  LET questions == [k \in 1..n |->
                                      TranslationQuestion(selected[k], calls[c].direction)]
                      quiz_id == uuid_count + 1
                      quiz == Quiz(quiz_id, calls[c].hsk_level, questions, "translation")
                  IN  /\ active_quizzes' = (quiz_id :> quiz) @@ active_quizzes
                      /\ uuid_count' = quiz_id
                      /\ calls' = [calls EXCEPT ![c] = Finished(@, Returned(quiz))]
                      /\ UNCHANGED <<vocabulary, user_progress, quiz_results,
                                     db_available, clock>>

----------------------------------------------------------------------------
(* Quiz building: QuizManager.generate_multiple_choice_quiz *)

\* the ways to take n different positions of a list of length len, in order:
\* the outcomes of random.sample on positions
Picks(n, len) ==
    {f \in [1..n -> 1..len] : \A a, b \in 1..n : a # b => f[a] # f[b]}

\* the pool test of line 162, never failing
EnoughForChoicesAlways(vocab_list) == TRUE

\* line 162: the pool the choices are drawn from has at least 4 items
EnoughForChoices(vocab_list) == Len(vocab_list) >= 4

\* line 171: the items of the list other than the target
OtherVocab(vocab_list, vocab) ==
    SelectSeq(vocab_list, LAMBDA v : v.id # vocab.id)

\* lines 171-176 for one target: the target's translation followed by the
\* translations of the drawn distractors, then shuffled
ShuffledChoices(vocab_list, vocab, distract, shuffle) ==
    LET other_vocab == OtherVocab(vocab_list, vocab)
        distractors == [j \in 1..Len(distract) |-> other_vocab[distract[j]]]
        choices == <<vocab.english>> \o
                       [j \in 1..Len(distractors) |-> distractors[j].english]
    IN  [j \in 1..Len(choices) |-> choices[shuffle[j]]]

\* MultipleChoiceQuestion recording the first letter whatever the shuffle did
MultipleChoiceQuestionFirstLetter(vocab, choices) ==
    [question |-> <<"What does", vocab.chinese, vocab.pinyin, "mean?">>,
     vocab_id |-> vocab.id,
     correct_answer |-> Letters[1],
     question_type |-> "multiple_choice",
     choices |-> ChoicesOf(<<choices[1], choices[2], choices[3],
                             IF Len(choices) > 3 THEN choices[4] ELSE choices[1]>>)]

\* lines 178-195: choices.index, the letter, the question dictionary
MultipleChoiceQuestion(vocab, choices) ==
    LET correct_index == CHOOSE j \in 1..Len(choices) :
                             /\ choices[j] = vocab.english
                             /\ \A i \in 1..(j - 1) : choices[i] # vocab.english
    IN  [question |-> <<"What does", vocab.chinese, vocab.pinyin, "mean?">>,
         vocab_id |-> vocab.id,
         correct_answer |-> Letters[correct_index],
         question_type |-> "multiple_choice",
         choices |-> ChoicesOf(<<choices[1], choices[2], choices[3],
                                 IF Len(choices) > 3 THEN choices[4] ELSE choices[1]>>)]

\* a caller invokes generate_multiple_choice_quiz: the coroutine runs to its
\* await, the SELECT of the level's vocabulary
TakeMultipleChoiceQuiz(c, hsk_level, num_questions) ==
    /\ Dispatchable(c)
    /\ calls' = [calls EXCEPT ![c] =
                    [IdleCall EXCEPT !.op = "generate_multiple_choice_quiz",
                                     !.pc = "fetch_choice_vocabulary",
                                     !.hsk_level = hsk_level,
                                     !.num_questions = num_questions]]
    /\ UNCHANGED <<vocabulary, user_progress, quiz_results, active_quizzes,
                   uuid_count, db_available, clock>>

\* the sizes the random draws of a build in flight depend on: the questions,
\* the distractors of a question, the choices of a question
DrawSizes(c) ==
    LET vocab_list == get_vocabulary_by_hsk_level(calls[c].hsk_level)
        n == IF Len(vocab_list) < calls[c].num_questions
             THEN Len(vocab_list) ELSE calls[c].num_questions
        others == IF Len(vocab_list) = 0 THEN 0 ELSE Len(vocab_list) - 1
    IN  [pool |-> Len(vocab_list), questions |-> n, others |-> others,
         distractors |-> Min(3, others), choices |-> 1 + Min(3, others)]

\* the SELECT returns; rand holds what random.sample and random.shuffle draw:
\* the positions of the targets, and for each question the positions of its
\* distractors among the other items and the order the shuffle leaves
BuildMultipleChoiceQuiz(c, rand) ==
    /\ calls[c].pc = "fetch_choice_vocabulary"
    /\ IF ~db_available THEN StoreRaises(c)
       ELSE LET vocab_list == get_vocabulary_by_hsk_level(calls[c].hsk_level)
                size == DrawSizes(c)
                n == size.questions
            IN  IF ~EnoughForChoices(vocab_list)
                THEN /\ calls' = [calls EXCEPT ![c] =
                            Finished(@, Raised("ValueError",
                                [NoMessage EXCEPT !.text =
                                    "Need at least 4 vocabulary items for multiple choice"]))]
                     /\ UNCHANGED <<vocabulary, user_progress, quiz_results,
                                    active_quizzes, uuid_count, db_available, clock>>
                ELSE /\ rand.pick \in Picks(n, size.pool)
                     /\ rand.distract \in [1..n -> Picks(size.distractors, size.others)]
                     /\ rand.shuffle \in [1..n -> Picks(size.choices, size.choices)]
                     /\ IF n > 0 /\ size.choices < 3
                        THEN /\ calls' = [calls EXCEPT ![c] =
                                    Finished(@, Raised("IndexError", NoMessage))]
                             /\ UNCHANGED <<vocabulary, user_progress, quiz_results,
                                            active_quizzes, uuid_count, db_available,
                                            clock>>
                        ELSE LET questions == [k \in 1..n |->
                                     MultipleChoiceQuestion(
                                         vocab_list[rand.pick[k]],
                                         ShuffledChoices(vocab_list,
                                                         vocab_list[rand.pick[k]],
                                                         rand.distract[k],
                                                         rand.shuffle[k]))]
                                 quiz_id == uuid_count + 1
                                 quiz == Quiz(quiz_id, calls[c].hsk_level, questions,
                                              "multiple_choice")
                             IN  /\ active_quizzes' = (quiz_id :> quiz) @@ active_quizzes
                                 /\ uuid_count' = quiz_id
                                 /\ calls' = [calls EXCEPT ![c] =
                                                 Finished(@, Returned(quiz))]
                                 /\ UNCHANGED <<vocabulary, user_progress, quiz_results,
                                                db_available, clock>>

----------------------------------------------------------------------------
(* Lookup: QuizManager.get_active_quiz *)

\* self.active_quizzes.get(quiz_id): <<>> is None
get_active_quiz(quiz_id) ==
    IF quiz_id \in DOMAIN active_quizzes THEN <<active_quizzes[quiz_id]>> ELSE <<>>

\* a caller invokes get_active_quiz: it has no await and returns at once
GetActiveQuiz(c, quiz_id) ==
    /\ Dispatchable(c)
    /\ LET started == [IdleCall EXCEPT !.op = "get_active_quiz", !.quiz_id = quiz_id]
       IN  calls' = [calls EXCEPT ![c] =
                        Finished(started, Returned(get_active_quiz(quiz_id)))]
    /\ UNCHANGED <<vocabulary, user_progress, quiz_results, active_quizzes,
                   uuid_count, db_available, clock>>

----------------------------------------------------------------------------
(* Submission: QuizManager.submit_quiz *)

\* SubmitPrecheck without the membership test: the lookup of line 274 raises
SubmitPrecheckNoMembership(quiz_id, answers) ==
    IF quiz_id \notin DOMAIN active_quizzes
    THEN Raised("KeyError", [NoMessage EXCEPT !.quiz_id = quiz_id])
    ELSE IF Len(answers) # Len(active_quizzes[quiz_id].questions)
    THEN Raised("ValueError",
                [NoMessage EXCEPT !.text = "Expected answers, got",
                                  !.expected = Len(active_quizzes[quiz_id].questions),
                                  !.got = Len(answers)])
    ELSE NoOutcome

\* SubmitPrecheck with the two counts of the message swapped
SubmitPrecheckSwappedCounts(quiz_id, answers) ==
    IF quiz_id \notin DOMAIN active_quizzes
    THEN Raised("ValueError",
                [NoMessage EXCEPT !.text = "Quiz not found or already completed",
                                  !.quiz_id = quiz_id])
    ELSE IF Len(answers) # Len(active_quizzes[quiz_id].questions)
    THEN Raised("ValueError",
                [NoMessage EXCEPT !.text = "Expected answers, got",
                                  !.expected = Len(answers),
                                  !.got = Len(active_quizzes[quiz_id].questions)])
    ELSE NoOutcome

\* lines 271-279: the two checks before anything is scored
SubmitPrecheck(quiz_id, answers) ==
    IF quiz_id \notin DOMAIN active_quizzes
    THEN Raised("ValueError",
                [NoMessage EXCEPT !.text = "Quiz not found or already completed",
                                  !.quiz_id = quiz_id])
    ELSE IF Len(answers) # Len(active_quizzes[quiz_id].questions)
    THEN Raised("ValueError",
                [NoMessage EXCEPT !.text = "Expected answers, got",
                                  !.expected = Len(active_quizzes[quiz_id].questions),
                                  !.got = Len(answers)])
    ELSE NoOutcome

\* ScoreQuestion handing update_progress the opposite of the verdict
ScoreQuestionOppositeBit(rec, k) ==
    LET question == rec.quiz[1].questions[k]
        answer == rec.answers[k]
        checked == check_answer(question, answer)
    IN  [rec EXCEPT !.pc = "progress_select",
                    !.i = k,
                    !.correct_count = @ + (IF checked.is_correct THEN 1 ELSE 0),
                    !.results = Append(@, [question_number |-> k,
                                           question |-> question.question,
                                           user_answer |-> answer,
                                           correct_answer |-> question.correct_answer,
                                           is_correct |-> checked.is_correct,
                                           feedback |-> checked.feedback]),
                    !.vocabulary_id = question.vocab_id,
                    !.correct = ~checked.is_correct]

\* lines 285-301 for question k: score it, count it, keep its record, and
\* call update_progress, which runs to its SELECT
ScoreQuestion(rec, k) ==
    LET question == rec.quiz[1].questions[k]
        answer == rec.answers[k]
        checked == check_answer(question, answer)
    IN  [rec EXCEPT !.pc = "progress_select",
                    !.i = k,
                    !.correct_count = @ + (IF checked.is_correct THEN 1 ELSE 0),
                    !.results = Append(@, [question_number |-> k,
                                           question |-> question.question,
                                           user_answer |-> answer,
                                           correct_answer |-> question.correct_answer,
                                           is_correct |-> checked.is_correct,
                                           feedback |-> checked.feedback]),
                    !.vocabulary_id = question.vocab_id,
                    !.correct = checked.is_correct]

\* Quiz.get_duration_seconds
get_duration_seconds(quiz) == (clock - quiz.start_time) * 86400

\* lines 303-315: the loop is over; take the duration and call
\* record_quiz_result, which runs to its INSERT
AfterQuestions(rec) ==
    [rec EXCEPT !.pc = "record_insert",
                !.duration = get_duration_seconds(rec.quiz[1]),
                !.vocabulary_id = 0, !.correct = FALSE]

\* NextQuestion leaving the loop after the first question
NextQuestionStopsEarly(rec, k) ==
    IF k <= Len(rec.quiz[1].questions) /\ k <= 1 THEN ScoreQuestion(rec, k)
    ELSE AfterQuestions(rec)

\* the loop of lines 285-301, entered with k - 1 questions done
NextQuestion(rec, k) ==
    IF k <= Len(rec.quiz[1].questions) THEN ScoreQuestion(rec, k) ELSE AfterQuestions(rec)

\* a caller invokes submit_quiz: the coroutine runs to its first await
SubmitQuiz(c, quiz_id, answers) ==
    /\ Dispatchable(c)
    /\ LET started == [IdleCall EXCEPT !.op = "submit_quiz", !.quiz_id = quiz_id,
                                       !.answers = answers]
           failure == SubmitPrecheck(quiz_id, answers)
       IN  calls' = [calls EXCEPT ![c] =
                        IF failure # NoOutcome THEN Finished(started, failure)
                        ELSE NextQuestion(
                                 [started EXCEPT !.quiz = <<active_quizzes[quiz_id]>>], 1)]
    /\ UNCHANGED <<vocabulary, user_progress, quiz_results, active_quizzes,
                   uuid_count, db_available, clock>>

\* RetireQuiz emptying the table
RetireQuizAll(quiz_id) == <<>>

\* RetireQuiz that marks the session completed and leaves it in the table
RetireQuizKeepsEntry(quiz_id) ==
    [active_quizzes EXCEPT ![quiz_id].is_completed = TRUE]

\* lines 317-319: del self.active_quizzes[quiz_id]
RetireQuiz(quiz_id) ==
    [q \in DOMAIN active_quizzes \ {quiz_id} |-> active_quizzes[q]]

\* lines 321-329: the dictionary submit_quiz returns
SubmitResult(rec) ==
    LET total_questions == Len(rec.quiz[1].questions)
    IN  [quiz_id |-> rec.quiz_id,
         total_questions |-> total_questions,
         correct_answers |-> rec.correct_count,
         incorrect_answers |-> total_questions - rec.correct_count,
         score_percentage |-> round1(score_percentage(rec.correct_count, total_questions)),
         duration_seconds |-> rec.duration,
         results |-> rec.results]

\* the INSERT of record_quiz_result runs; its commit is awaited next
RecordQuizResult(c) ==
    /\ calls[c].pc = "record_insert"
    /\ IF ~db_available THEN StoreRaises(c)
       ELSE LET quiz == calls[c].quiz[1]
            IN  /\ quiz_results' =
                       Append(quiz_results,
                              QuizResultRow(quiz.quiz_type, quiz.hsk_level,
                                            Len(quiz.questions), calls[c].correct_count,
                                            calls[c].duration))
                /\ calls' = [calls EXCEPT ![c].pc = "record_commit"]
                /\ UNCHANGED <<vocabulary, user_progress, active_quizzes, uuid_count,
                               db_available, clock>>

\* the commit of record_quiz_result returns; the session is marked completed
\* and deleted from the table, and the result is returned
FinishSubmit(c) ==
    /\ calls[c].pc = "record_commit"
    /\ IF ~db_available THEN StoreRaises(c)
       ELSE IF calls[c].quiz_id \notin DOMAIN active_quizzes
       THEN /\ calls' = [calls EXCEPT ![c] =
                            Finished(@, Raised("KeyError",
                                               [NoMessage EXCEPT !.quiz_id = calls[c].quiz_id]))]
            /\ UNCHANGED <<vocabulary, user_progress, quiz_results, active_quizzes,
                           uuid_count, db_available, clock>>
       ELSE /\ active_quizzes' = RetireQuiz(calls[c].quiz_id)
            /\ calls' = [calls EXCEPT ![c] = Finished(@, Returned(SubmitResult(calls[c])))]
            /\ UNCHANGED <<vocabulary, user_progress, quiz_results, uuid_count,
                           db_available, clock>>

----------------------------------------------------------------------------
(* Scoring events: MandarinDatabase.update_progress *)

\* a caller invokes update_progress directly: it runs to its SELECT
UpdateProgress(c, vocabulary_id, correct) ==
    /\ Dispatchable(c)
    /\ calls' = [calls EXCEPT ![c] =
                    [IdleCall EXCEPT !.op = "update_progress",
                                     !.pc = "progress_select",
                                     !.vocabulary_id = vocabulary_id,
                                     !.correct = correct]]
    /\ UNCHANGED <<vocabulary, user_progress, quiz_results, active_quizzes,
                   uuid_count, db_available, clock>>

\* lines 225-263: the SELECT returns; the new mastery level and the review
\* offset are computed from the row that was read; the write is awaited next
ReadProgress(c) ==
    /\ calls[c].pc = "progress_select"
    /\ IF ~db_available THEN StoreRaises(c)
       ELSE LET existing == SelectProgress(calls[c].vocabulary_id)
                mastery == IF existing # <<>>
                           THEN new_mastery(existing[1].mastery_level, calls[c].correct)
                           ELSE initial_mastery(calls[c].correct)
            IN  /\ calls' = [calls EXCEPT ![c] =
                       IF existing # <<>> /\ mastery \notin DOMAIN days_map
                       THEN Finished(@, Raised("KeyError", NoMessage))
                       ELSE [@ EXCEPT !.pc = "progress_write",
                                      !.existing = existing,
                                      !.now = clock,
                                      !.mastery = mastery,
                                      !.days = IF existing # <<>> THEN days_map[mastery]
                                               ELSE 1]]
                /\ UNCHANGED <<vocabulary, user_progress, quiz_results, active_quizzes,
                               uuid_count, db_available, clock>>

\* lines 242-284: the UPDATE or the INSERT runs; the commit is awaited next
WriteProgress(c) ==
    /\ calls[c].pc = "progress_write"
    /\ IF ~db_available THEN StoreRaises(c)
       ELSE LET rec == calls[c]
                allowed == /\ MasteryCheck(rec.mastery)
                           /\ rec.existing = <<>> =>
                                 /\ UniqueCheck(rec.vocabulary_id)
                                 /\ ForeignKeyCheck(rec.vocabulary_id)
            IN  IF ~allowed
                THEN /\ calls' = [calls EXCEPT ![c] =
                                     Finished(@, Raised("IntegrityError", NoMessage))]
                     /\ UNCHANGED <<vocabulary, user_progress, quiz_results,
                                    active_quizzes, uuid_count, db_available, clock>>
                ELSE /\ user_progress' =
                            IF rec.existing # <<>>
                            THEN UpdateProgressRows(rec.vocabulary_id, rec.mastery,
                                                    rec.correct, rec.now, rec.days)
                            ELSE InsertProgressRow(rec.vocabulary_id, rec.mastery,
                                                   rec.correct, rec.now)
                     /\ calls' = [calls EXCEPT ![c].pc = "progress_commit"]
                     /\ UNCHANGED <<vocabulary, quiz_results, active_quizzes, uuid_count,
                                    db_available, clock>>

\* line 286: the commit returns and update_progress with it; submit_quiz goes
\* on with its loop
CommitProgress(c) ==
    /\ calls[c].pc = "progress_commit"
    /\ IF ~db_available THEN StoreRaises(c)
       ELSE /\ calls' = [calls EXCEPT ![c] =
                   IF @.op = "update_progress" THEN Finished(@, Returned("None"))
                   ELSE NextQuestion([@ EXCEPT !.existing = <<>>, !.now = 0,
                                               !.mastery = 0, !.days = 0], @.i + 1)]
            /\ UNCHANGED <<vocabulary, user_progress, quiz_results, active_quizzes,
                           uuid_count, db_available, clock>>

----------------------------------------------------------------------------
(* Bulk reset: _handle_clear_progress and MandarinDatabase.clear_all_progress *)

\* a caller invokes the clear_progress tool: without confirm the handler
\* answers at once; with confirm clear_all_progress runs to its first DELETE
ClearProgress(c, confirm) ==
    /\ Dispatchable(c)
    /\ LET started == [IdleCall EXCEPT !.op = "clear_progress", !.confirm = confirm]
       IN  calls' = [calls EXCEPT ![c] =
                        IF ~confirm THEN Finished(started, Returned("cancelled"))
                        ELSE [started EXCEPT !.pc = "delete_user_progress"]]
    /\ UNCHANGED <<vocabulary, user_progress, quiz_results, active_quizzes,
                   uuid_count, db_available, clock>>

\* DELETE FROM user_progress
DeleteUserProgress(c) ==
    /\ calls[c].pc = "delete_user_progress"
    /\ IF ~db_available THEN StoreRaises(c)
       ELSE /\ user_progress' = {}
            /\ calls' = [calls EXCEPT ![c].pc = "delete_quiz_results"]
            /\ UNCHANGED <<vocabulary, quiz_results, active_quizzes, uuid_count,
                           db_available, clock>>

\* DeleteQuizResults leaving the history as it is
DeleteQuizResultsSkipped(c) ==
    /\ calls[c].pc = "delete_quiz_results"
    /\ calls' = [calls EXCEPT ![c].pc = "delete_learning_sessions"]
    /\ UNCHANGED <<vocabulary, user_progress, quiz_results, active_quizzes, uuid_count,
                   db_available, clock>>

\* DELETE FROM quiz_results
DeleteQuizResults(c) ==
    /\ calls[c].pc = "delete_quiz_results"
    /\ IF ~db_available THEN StoreRaises(c)
       ELSE /\ quiz_results' = <<>>
            /\ calls' = [calls EXCEPT ![c].pc = "delete_learning_sessions"]
            /\ UNCHANGED <<vocabulary, user_progress, active_quizzes, uuid_count,
                           db_available, clock>>

\* DELETE FROM learning_sessions: a table nothing else reads or writes
DeleteLearningSessions(c) ==
    /\ calls[c].pc = "delete_learning_sessions"
    /\ IF ~db_available THEN StoreRaises(c)
       ELSE /\ calls' = [calls EXCEPT ![c].pc = "clear_commit"]
            /\ UNCHANGED <<vocabulary, user_progress, quiz_results, active_quizzes,
                           uuid_count, db_available, clock>>

\* the commit returns and the handler answers
CommitClear(c) ==
    /\ calls[c].pc = "clear_commit"
    /\ IF ~db_available THEN StoreRaises(c)
       ELSE /\ calls' = [calls EXCEPT ![c] = Finished(@, Returned("cleared"))]
            /\ UNCHANGED <<vocabulary, user_progress, quiz_results, active_quizzes,
                           uuid_count, db_available, clock>>

\* the steps of a clear in flight
ClearStep(c) ==
    \/ DeleteUserProgress(c)
    \/ DeleteQuizResults(c)
    \/ DeleteLearningSessions(c)
    \/ CommitClear(c)

----------------------------------------------------------------------------
(* Statistics: MandarinDatabase.get_progress_stats *)

\* SUM(times_seen) over user_progress
RECURSIVE SumSeen(_)
SumSeen(rows) ==
    IF rows = {} THEN 0
    ELSE LET r == CHOOSE x \in rows : TRUE IN r.times_seen + SumSeen(rows \ {r})

\* SUM(times_correct) over user_progress
RECURSIVE SumCorrect(_)
SumCorrect(rows) ==
    IF rows = {} THEN 0
    ELSE LET r == CHOOSE x \in rows : TRUE IN r.times_correct + SumCorrect(rows \ {r})

\* SUM(times_incorrect) over user_progress
RECURSIVE SumIncorrect(_)
SumIncorrect(rows) ==
    IF rows = {} THEN 0
    ELSE LET r == CHOOSE x \in rows : TRUE IN r.times_incorrect + SumIncorrect(rows \ {r})

\* TotalStudied counting reviews in place of rows
TotalStudiedAsReviews(rows) == SumSeen(rows)

\* SELECT COUNT(*) FROM user_progress WHERE times_seen > 0
TotalStudied(rows) == Cardinality({r \in rows : r.times_seen > 0})

\* SELECT mastery_level, COUNT(*) ... GROUP BY mastery_level, as a dictionary:
\* only the levels that have a row are keys
MasteryBreakdown(rows) ==
    [m \in {r.mastery_level : r \in rows} |->
        Cardinality({r \in rows : r.mastery_level = m})]

\* round(x, 2), in hundredths: the nearest hundredth, a tie to the even one
round2(x) ==
    LET scaled == x.num * 100
        q == scaled \div x.den
        twice == 2 * (scaled % x.den)
    IN  IF twice > x.den \/ (twice = x.den /\ q % 2 = 1) THEN q + 1 ELSE q

\* a caller invokes get_progress_stats: it runs to its first SELECT
GetProgressStats(c) ==
    /\ Dispatchable(c)
    /\ calls' = [calls EXCEPT ![c] =
                    [IdleCall EXCEPT !.op = "get_progress_stats", !.pc = "stats_count"]]
    /\ UNCHANGED <<vocabulary, user_progress, quiz_results, active_quizzes,
                   uuid_count, db_available, clock>>

\* lines 300-303: the count of the rows seen
StatsCount(c) ==
    /\ calls[c].pc = "stats_count"
    /\ IF ~db_available THEN StoreRaises(c)
       ELSE /\ calls' = [calls EXCEPT ![c].pc = "stats_breakdown",
                                      ![c].total_studied = TotalStudied(user_progress)]
            /\ UNCHANGED <<vocabulary, user_progress, quiz_results, active_quizzes,
                           uuid_count, db_available, clock>>

\* lines 306-314: the rows per mastery level
StatsBreakdown(c) ==
    /\ calls[c].pc = "stats_breakdown"
    /\ IF ~db_available THEN StoreRaises(c)
       ELSE /\ calls' = [calls EXCEPT ![c].pc = "stats_sums",
                                      ![c].mastery_breakdown =
                                          MasteryBreakdown(user_progress)]
            /\ UNCHANGED <<vocabulary, user_progress, quiz_results, active_quizzes,
                           uuid_count, db_available, clock>>

\* lines 317-340: the three sums (None, for no row, read as 0), the accuracy
\* and the dictionary returned
StatsSums(c) ==
    /\ calls[c].pc = "stats_sums"
    /\ IF ~db_available THEN StoreRaises(c)
       ELSE LET total_reviews == SumSeen(user_progress)
                total_correct == SumCorrect(user_progress)
                total_incorrect == SumIncorrect(user_progress)
                accuracy == IF total_reviews > 0
                            THEN [num |-> total_correct * 100, den |-> total_reviews]
                            ELSE [num |-> 0, den |-> 1]
                stats == [total_words_studied |-> calls[c].total_studied,
                          mastery_breakdown |-> calls[c].mastery_breakdown,
                          total_reviews |-> total_reviews,
                          accuracy |-> round2(accuracy),
                          total_correct |-> total_correct,
                          total_incorrect |-> total_incorrect]
            IN  /\ calls' = [calls EXCEPT ![c] = Finished(@, Returned(stats))]
                /\ UNCHANGED <<vocabulary, user_progress, quiz_results, active_quizzes,
                               uuid_count, db_available, clock>>

\* the steps of a get_progress_stats in flight
StatsStep(c) ==
    \/ StatsCount(c)
    \/ StatsBreakdown(c)
    \/ StatsSums(c)

----------------------------------------------------------------------------
(* Vocabulary: MandarinDatabase.add_vocabulary *)

\* the guard of line 164, and CHECK(hsk_level BETWEEN 1 AND 6)
LevelCheck(hsk_level) == 1 <= hsk_level /\ hsk_level <= 6

\* UniquePairCheck letting every pair in
UniquePairCheckOff(chinese, hsk_level) == TRUE

\* UNIQUE(chinese, hsk_level)
UniquePairCheck(chinese, hsk_level) ==
    \A k \in 1..Len(vocabulary) :
        ~(vocabulary[k].chinese = chinese /\ vocabulary[k].hsk_level = hsk_level)

\* a caller invokes add_vocabulary: the level is tested, then the coroutine
\* runs to its INSERT
AddVocabulary(c, item, hsk_level) ==
    /\ Dispatchable(c)
    /\ LET started == [IdleCall EXCEPT !.op = "add_vocabulary",
                                       !.item = <<item>>, !.hsk_level = hsk_level]
       IN  calls' = [calls EXCEPT ![c] =
                        IF ~LevelCheck(hsk_level)
                        THEN Finished(started,
                                 Raised("ValueError",
                                        [NoMessage EXCEPT
                                            !.text = "HSK level must be between 1 and 6, got",
                                            !.got = hsk_level]))
                        ELSE [started EXCEPT !.pc = "insert_vocabulary"]]
    /\ UNCHANGED <<vocabulary, user_progress, quiz_results, active_quizzes,
                   uuid_count, db_available, clock>>

\* lines 167-174: the INSERT runs under the constraints of the table; the id
\* is the next of the AUTOINCREMENT sequence (no row is ever deleted); the
\* commit is awaited next
InsertVocabulary(c) ==
    /\ calls[c].pc = "insert_vocabulary"
    /\ IF ~db_available THEN StoreRaises(c)
       ELSE LET item == calls[c].item[1]
                hsk_level == calls[c].hsk_level
                id == Len(vocabulary) + 1
            IN  IF ~(LevelCheck(hsk_level) /\ UniquePairCheck(item.chinese, hsk_level))
                THEN /\ calls' = [calls EXCEPT ![c] =
                                     Finished(@, Raised("IntegrityError", NoMessage))]
                     /\ UNCHANGED <<vocabulary, user_progress, quiz_results,
                                    active_quizzes, uuid_count, db_available, clock>>
                ELSE /\ vocabulary' = Append(vocabulary,
                            [id |-> id, chinese |-> item.chinese, pinyin |-> item.pinyin,
                             english |-> item.english, hsk_level |-> hsk_level])
                     /\ calls' = [calls EXCEPT ![c].pc = "vocabulary_commit",
                                               ![c].lastrowid = id]
                     /\ UNCHANGED <<user_progress, quiz_results, active_quizzes,
                                    uuid_count, db_available, clock>>

\* lines 175-176: the commit returns and add_vocabulary returns the id
CommitVocabulary(c) ==
    /\ calls[c].pc = "vocabulary_commit"
    /\ IF ~db_available THEN StoreRaises(c)
       ELSE /\ calls' = [calls EXCEPT ![c] = Finished(@, Returned(@.lastrowid))]
            /\ UNCHANGED <<vocabulary, user_progress, quiz_results, active_quizzes,
                           uuid_count, db_available, clock>>

\* the steps of an add_vocabulary in flight
VocabularyStep(c) ==
    \/ InsertVocabulary(c)
    \/ CommitVocabulary(c)

----------------------------------------------------------------------------
(* The environment *)

\* the store stops answering: the next store access raises
StoreFails ==
    /\ db_available
    /\ db_available' = FALSE
    /\ UNCHANGED <<vocabulary, user_progress, quiz_results, active_quizzes,
                   uuid_count, calls, clock>>

StoreRecovers ==
    /\ ~db_available
    /\ db_available' = TRUE
    /\ UNCHANGED <<vocabulary, user_progress, quiz_results, active_quizzes,
                   uuid_count, calls, clock>>

\* time passes
Tick ==
    /\ clock < MaxClock
    /\ clock' = clock + 1
    /\ UNCHANGED <<vocabulary, user_progress, quiz_results, active_quizzes,
                   uuid_count, calls, db_available>>

\* the caller has its answer; the slot serves the next invocation
Return(c) ==
    /\ calls[c].pc = "done"
    /\ calls' = [calls EXCEPT ![c] = IdleCall]
    /\ UNCHANGED <<vocabulary, user_progress, quiz_results, active_quizzes,
                   uuid_count, db_available, clock>>

----------------------------------------------------------------------------
(* Specifications *)

Init ==
    /\ vocabulary = VocabularyRows
    /\ user_progress = {}
    /\ quiz_results = <<>>
    /\ active_quizzes = <<>>
    /\ uuid_count = 0
    /\ calls = [c \in Calls |-> IdleCall]
    /\ db_available = TRUE
    /\ clock = 0

\* the ids a caller submits: every id issued so far, and 0, never issued
SubmittedIds == 0..uuid_count

\* the steps of the coroutines in flight
Step(c) ==
    \/ BuildQuiz(c)
    \/ ReadProgress(c)
    \/ WriteProgress(c)
    \/ CommitProgress(c)
    \/ RecordQuizResult(c)
    \/ FinishSubmit(c)

\* invocations arrive at any time and interleave at their awaits; the store
\* answers every access
Next ==
    \E c \in Calls :
        \/ \E l \in Levels, n \in QuestionCounts, d \in Directions : TakeQuiz(c, l, n, d)
        \/ \E q \in SubmittedIds, a \in AnswerLists : SubmitQuiz(c, q, a)
        \/ \E v \in VocabularyIds, b \in BOOLEAN : UpdateProgress(c, v, b)
        \/ Step(c)

Spec == Init /\ [][Next]_vars

\* one invocation at a time (the single logical worker), and the store may
\* fail and recover between any two steps
SeqNext ==
    \/ \E c \in Calls :
        \/ /\ NoCallInFlight
           /\ \E l \in Levels, n \in QuestionCounts, d \in Directions : TakeQuiz(c, l, n, d)
        \/ /\ NoCallInFlight
           /\ \E q \in SubmittedIds, a \in AnswerLists : SubmitQuiz(c, q, a)
        \/ Step(c)
    \/ StoreFails
    \/ StoreRecovers

SeqSpec == Init /\ [][SeqNext]_vars

\* scoring events applied one after the other, each caller waiting for the
\* answer before the next call, while time passes
PolicyNext ==
    \/ /\ SumSeen(user_progress) < MaxSeen
       /\ \A c \in Calls : calls[c].pc = "idle"
       /\ \E v \in VocabularyIds, b \in BOOLEAN : UpdateProgress(1, v, b)
    \/ ReadProgress(1)
    \/ WriteProgress(1)
    \/ CommitProgress(1)
    \/ Return(1)
    \/ Tick

PolicySpec == Init /\ [][PolicyNext]_vars

\* the questions of the active sessions: what a submission would score
PendingQuestions(quiz_id) ==
    IF quiz_id \in DOMAIN active_quizzes THEN Len(active_quizzes[quiz_id].questions)
    ELSE 0

\* scoring events, builds, submissions and clears one after the other, each
\* caller waiting for the answer before the next call
LedgerNext ==
    \/ /\ SumSeen(user_progress) < MaxLedger
       /\ \E v \in VocabularyIds, b \in BOOLEAN : UpdateProgress(1, v, b)
    \/ /\ uuid_count < MaxBuilds
       /\ \E l \in Levels, n \in QuestionCounts, d \in Directions : TakeQuiz(1, l, n, d)
    \/ \E q \in SubmittedIds, a \in AnswerLists :
          /\ SumSeen(user_progress) + PendingQuestions(q) <= MaxLedger
          /\ SubmitQuiz(1, q, a)
    \/ \E confirm \in BOOLEAN : ClearProgress(1, confirm)
    \/ Step(1)
    \/ ClearStep(1)
    \/ Return(1)

LedgerSpec == Init /\ [][LedgerNext]_vars

\* check_answer applied to every question and raw answer, one call after the
\* other
CheckNext ==
    \/ \E question \in TranslationQuestions \cup MultipleChoiceQuestions,
          user_answer \in RawAnswers : CheckAnswer(1, question, user_answer)
    \/ Return(1)

CheckSpec == Init /\ [][CheckNext]_vars

\* a store with three levels: level 1 holds four items, level 2 two, level 3
\* none
BuildVocabularyRows ==
    << [id |-> 1, chinese |-> <<"r">>, pinyin |-> <<"r">>, english |-> <<"a">>,
        hsk_level |-> 1],
       [id |-> 2, chinese |-> <<"h">>, pinyin |-> <<"h">>, english |-> <<"b">>,
        hsk_level |-> 1],
       [id |-> 3, chinese |-> <<"x">>, pinyin |-> <<"x">>, english |-> <<"a", "b">>,
        hsk_level |-> 1],
       [id |-> 4, chinese |-> <<"z">>, pinyin |-> <<"z">>, english |-> <<"b", "a">>,
        hsk_level |-> 1],
       [id |-> 5, chinese |-> <<"s">>, pinyin |-> <<"s">>, english |-> <<"a", "a">>,
        hsk_level |-> 2],
       [id |-> 6, chinese |-> <<"l">>, pinyin |-> <<"l">>, english |-> <<"b", "b">>,
        hsk_level |-> 2] >>

BuildLevels == {1, 2, 3}

\* the num_questions a caller asks for: one, and more than any level holds
BuildQuestionCounts == {1, Len(BuildVocabularyRows)}

BuildInit ==
    /\ vocabulary = BuildVocabularyRows
    /\ user_progress = {}
    /\ quiz_results = <<>>
    /\ active_quizzes = <<>>
    /\ uuid_count = 0
    /\ calls = [c \in Calls |-> IdleCall]
    /\ db_available = TRUE
    /\ clock = 0

\* the orders a shuffle of n things leaves that are enumerated: the rotations
Rotations(n) ==
    {[j \in 1..n |-> ((j + r - 1) % n) + 1] : r \in 0..(n - 1)}

\* the distractor draws that are enumerated: every set of positions, in
\* list order
IncreasingPicks(n, len) ==
    {f \in Picks(n, len) : \A a, b \in 1..n : a < b => f[a] < f[b]}

\* the target draws that are enumerated: every first target, the following
\* targets in list order around the list
ConsecutivePicks(n, len) ==
    {f \in Picks(n, len) : \A k \in 1..(n - 1) : f[k + 1] = (f[k] % len) + 1}

\* the random draws enumerated for a build in flight: every first target,
\* every set of distractors and every rotation, the distractor positions and
\* the rotation taken the same for each question of the quiz
RandomDraws(c) ==
    LET size == DrawSizes(c)
    IN  {[pick |-> p,
          distract |-> [k \in 1..size.questions |-> d],
          shuffle |-> [k \in 1..size.questions |-> r]] :
            p \in ConsecutivePicks(size.questions, size.pool),
            d \in IncreasingPicks(size.distractors, size.others),
            r \in Rotations(size.choices)}

\* the builds started so far
BuildsStarted ==
    Cardinality({c \in Calls : calls[c].op \in {"generate_translation_quiz",
                                                "generate_multiple_choice_quiz"}})

\* builds of both kinds and submissions of an empty answer list, one call at
\* a time
BuildNext ==
    \E c \in Calls :
        \/ /\ NoCallInFlight /\ BuildsStarted < MaxChoiceBuilds
           /\ \E l \in BuildLevels, n \in BuildQuestionCounts, d \in Directions :
                 TakeQuiz(c, l, n, d)
        \/ /\ NoCallInFlight /\ BuildsStarted < MaxChoiceBuilds
           /\ \E l \in BuildLevels, n \in BuildQuestionCounts :
                 TakeMultipleChoiceQuiz(c, l, n)
        \/ /\ NoCallInFlight
           /\ \E q \in SubmittedIds : SubmitQuiz(c, q, <<>>)
        \/ \E rand \in RandomDraws(c) : BuildMultipleChoiceQuiz(c, rand)
        \/ BuildQuiz(c)
        \/ RecordQuizResult(c)
        \/ FinishSubmit(c)

BuildSpec == BuildInit /\ [][BuildNext]_vars

\* the answer lists of the right length for a session in the table
RightAnswerLists(quiz_id) ==
    [1..PendingQuestions(quiz_id) -> AnswerPool]

\* the num_questions asked for in ResultSpec: up to three
ResultQuestionCounts == 1..3

\* quizzes of up to three questions built over the store of three levels and
\* submitted with as many answers as questions, one session at a time, each
\* caller waiting for the answer before the next call
ResultNext ==
    \/ /\ active_quizzes = <<>>
       /\ uuid_count < MaxBuilds
       /\ \E l \in BuildLevels, n \in ResultQuestionCounts, d \in Directions :
             /\ SumSeen(user_progress) + n <= MaxLedger
             /\ TakeQuiz(1, l, n, d)
    \/ \E q \in DOMAIN active_quizzes :
          \E a \in RightAnswerLists(q) : SubmitQuiz(1, q, a)
    \/ Step(1)
    \/ Return(1)

ResultSpec == BuildInit /\ [][ResultNext]_vars

\* scoring events, builds, submissions, clears and statistics, one call at a
\* time, every call kept in its slot
ProgressNext ==
    \E c \in Calls :
        \/ /\ NoCallInFlight
           /\ \E v \in VocabularyIds, b \in BOOLEAN : UpdateProgress(c, v, b)
        \/ /\ NoCallInFlight
           /\ \E l \in Levels, n \in QuestionCounts, d \in Directions : TakeQuiz(c, l, n, d)
        \/ /\ NoCallInFlight
           /\ \E q \in SubmittedIds, a \in AnswerLists : SubmitQuiz(c, q, a)
        \/ /\ NoCallInFlight
           /\ \E confirm \in BOOLEAN : ClearProgress(c, confirm)
        \/ /\ NoCallInFlight
           /\ GetProgressStats(c)
        \/ Step(c)
        \/ ClearStep(c)
        \/ StatsStep(c)

ProgressSpec == Init /\ [][ProgressNext]_vars

\* the items a caller adds: the script form of a loaded item and a new one
NewItems ==
    {[chinese |-> ch, pinyin |-> ch, english |-> <<"a">>] : ch \in {<<"r">>, <<"n">>}}

\* the levels a caller adds at: below, at both ends of and above the range
NewLevels == {0, 1, 6, 7}

\* additions to the vocabulary among builds, submissions, scoring events and
\* clears, one call at a time, every call kept in its slot
VocabularyNext ==
    \E c \in Calls :
        \/ /\ NoCallInFlight
           /\ \E item \in NewItems, l \in NewLevels : AddVocabulary(c, item, l)
        \/ /\ NoCallInFlight
           /\ \E v \in VocabularyIds, b \in BOOLEAN : UpdateProgress(c, v, b)
        \/ /\ NoCallInFlight
           /\ \E l \in Levels, n \in QuestionCounts, d \in Directions : TakeQuiz(c, l, n, d)
        \/ /\ NoCallInFlight
           /\ \E q \in DOMAIN active_quizzes :
                 \E a \in RightAnswerLists(q) : SubmitQuiz(c, q, a)
        \/ /\ NoCallInFlight
           /\ ClearProgress(c, TRUE)
        \/ VocabularyStep(c)
        \/ Step(c)
        \/ ClearStep(c)

VocabularySpec == Init /\ [][VocabularyNext]_vars

\* scoring events and builds arriving at any time and interleaving at their
\* awaits; the store answers every access
RaceNext ==
    \E c \in Calls :
        \/ \E v \in VocabularyIds, b \in BOOLEAN : UpdateProgress(c, v, b)
        \/ \E l \in Levels, n \in QuestionCounts, d \in Directions : TakeQuiz(c, l, n, d)
        \/ BuildQuiz(c)
        \/ ReadProgress(c)
        \/ WriteProgress(c)
        \/ CommitProgress(c)

RaceSpec == Init /\ [][RaceNext]_vars

\* the ids a caller looks up: every id issued so far, 0 and the next id,
\* neither issued
LookedUpIds == 0..(uuid_count + 1)

\* at most MaxBuilds sessions built, of one question and of both kinds, over the
\* store of three levels, and lookups, one call at a time, every call kept in
\* its slot
RegisterNext ==
    \E c \in Calls :
        \/ /\ NoCallInFlight
           /\ uuid_count < MaxBuilds
           /\ \E l \in BuildLevels, d \in Directions : TakeQuiz(c, l, 1, d)
        \/ /\ NoCallInFlight
           /\ uuid_count < MaxBuilds
           /\ \E l \in BuildLevels : TakeMultipleChoiceQuiz(c, l, 1)
        \/ /\ NoCallInFlight
           /\ \E q \in LookedUpIds : GetActiveQuiz(c, q)
        \/ BuildQuiz(c)
        \/ \E rand \in RandomDraws(c) : BuildMultipleChoiceQuiz(c, rand)

RegisterSpec == BuildInit /\ [][RegisterNext]_vars

----------------------------------------------------------------------------
(* The tool handler: MandarinMCPServer._handle_submit_quiz_answers *)

\* the text the handler answers with, by the kind of exception it caught
SubmitResponse(outcome) ==
    IF outcome.exc = "none" THEN "Quiz Results"
    ELSE IF outcome.exc = "ValueError" THEN "Error"
    ELSE "Unexpected error"

----------------------------------------------------------------------------
(* Reading the invocations *)

Done(c) == calls[c].pc = "done"

Succeeded(c) == Done(c) /\ calls[c].outcome.exc = "none"

IsSubmit(c) == calls[c].op = "submit_quiz"

IsBuild(c) ==
    calls[c].op \in {"generate_translation_quiz", "generate_multiple_choice_quiz"}

IsChoiceBuild(c) == calls[c].op = "generate_multiple_choice_quiz"

InsufficientVocabulary(outcome) ==
    /\ outcome.exc = "ValueError"
    /\ outcome.msg.text = "Need at least 4 vocabulary items for multiple choice"

\* the items of a level, as the store holds them
LevelPool(hsk_level) ==
    {vocabulary[k] : k \in {j \in 1..Len(vocabulary) : vocabulary[j].hsk_level = hsk_level}}

\* the error kinds of the specification, as the code raises them
SessionNotFound(outcome) ==
    outcome.exc = "ValueError" /\ outcome.msg.text = "Quiz not found or already completed"

AnswerCountMismatch(outcome) ==
    outcome.exc = "ValueError" /\ outcome.msg.text = "Expected answers, got"

StoreError(outcome) == outcome.exc \in {"OperationalError", "IntegrityError"}

\* the build that issued quiz_id, and the questions it built
BuildOf(quiz_id) ==
    {c \in Calls : /\ IsBuild(c)
                   /\ Succeeded(c)
                   /\ calls[c].outcome.value[1].quiz_id = quiz_id}

QuestionsOf(quiz_id) ==
    calls[CHOOSE c \in BuildOf(quiz_id) : TRUE].outcome.value[1].questions

\* a submission with as many answers as its quiz has questions
RightCount(c) ==
    /\ BuildOf(calls[c].quiz_id) # {}
    /\ Len(calls[c].answers) = Len(QuestionsOf(calls[c].quiz_id))

\* the counters of a progress row
Counters(row) ==
    [mastery_level |-> row.mastery_level, times_seen |-> row.times_seen,
     times_correct |-> row.times_correct, times_incorrect |-> row.times_incorrect]

\* one scoring event applied to the counters of a row (<<>>: no row), with
\* nothing else running
ApplyEvent(existing, correct) ==
    IF existing = <<>>
    THEN <<[mastery_level |-> initial_mastery(correct), times_seen |-> 1,
            times_correct |-> IF correct THEN 1 ELSE 0,
            times_incorrect |-> IF correct THEN 0 ELSE 1]>>
    ELSE <<[mastery_level |-> new_mastery(existing[1].mastery_level, correct),
            times_seen |-> existing[1].times_seen + 1,
            times_correct |-> existing[1].times_correct + (IF correct THEN 1 ELSE 0),
            times_incorrect |-> existing[1].times_incorrect + (IF correct THEN 0 ELSE 1)]>>

RECURSIVE ApplyEvents(_, _)
ApplyEvents(existing, bits) ==
    IF bits = <<>> THEN existing
    ELSE ApplyEvents(ApplyEvent(existing, Head(bits)), Tail(bits))

\* the direct scoring events on an item, and the orders they can be put in
EventsOn(vocabulary_id) ==
    {c \in Calls : /\ calls[c].op = "update_progress"
                   /\ calls[c].vocabulary_id = vocabulary_id}

Orders(S) ==
    {f \in [1..Cardinality(S) -> S] : \A a, b \in 1..Cardinality(S) : a # b => f[a] # f[b]}

SerialOutcomes(vocabulary_id) ==
    {ApplyEvents(<<>>, [k \in 1..Len(order) |-> calls[order[k]].correct]) :
        order \in Orders(EventsOn(vocabulary_id))}

\* a clear that was confirmed and has returned
IsConfirmedClear(c) ==
    calls[c].op = "clear_progress" /\ calls[c].confirm /\ Succeeded(c)

IsStats(c) == calls[c].op = "get_progress_stats"

IsEvent(c) == calls[c].op = "update_progress"

\* the last confirmed clear before call d (0: none)
LastClearBefore(d) ==
    LET clears == {c \in 1..(d - 1) : IsConfirmedClear(c)}
    IN  IF clears = {} THEN 0 ELSE CHOOSE c \in clears : \A e \in clears : e <= c

\* the scoring events of the calls after call c0 and before call d: the
\* direct ones, and one per question of each submission that returned
ScoredBetween(c0, d) ==
    LET between == {e \in Calls : c0 < e /\ e < d /\ Succeeded(e)}
    IN  {[call |-> e, k |-> 0, item |-> calls[e].vocabulary_id, bit |-> calls[e].correct] :
            e \in {x \in between : IsEvent(x)}}
        \cup UNION {
            {[call |-> s, k |-> k,
              item |-> QuestionsOf(calls[s].quiz_id)[k].vocab_id,
              bit |-> calls[s].outcome.value[1].results[k].is_correct] :
                k \in 1..Len(calls[s].outcome.value[1].results)} :
            s \in {x \in between : IsSubmit(x)}}

\* the sum of the counts of a mastery breakdown
RECURSIVE SumCounts(_)
SumCounts(breakdown) ==
    IF DOMAIN breakdown = {} THEN 0
    ELSE LET m == CHOOSE x \in DOMAIN breakdown : TRUE
         IN  breakdown[m] + SumCounts([x \in DOMAIN breakdown \ {m} |-> breakdown[x]])

IsAdd(c) == calls[c].op = "add_vocabulary"

\* the error of the specification for a level outside 1..6, as add_vocabulary
\* raises it
InvalidLevel(outcome) ==
    /\ outcome.exc = "ValueError"
    /\ outcome.msg.text = "HSK level must be between 1 and 6, got"

CountersOf(vocabulary_id) ==
    LET existing == SelectProgress(vocabulary_id)
    IN  IF existing = <<>> THEN <<>> ELSE <<Counters(existing[1])>>

----------------------------------------------------------------------------
(* Claims *)

\* C1: of two submissions of the same quiz, each with the right number of
\* answers, at most one succeeds, and once one has succeeded every other one
\* that has ended has failed with SessionNotFound and with no other error.
C1_OneSubmitWins ==
    \A c1, c2 \in Calls :
        ( /\ c1 # c2
          /\ IsSubmit(c1) /\ IsSubmit(c2)
          /\ calls[c1].quiz_id = calls[c2].quiz_id
          /\ RightCount(c1) /\ RightCount(c2)
          /\ Succeeded(c1) /\ Done(c2) )
        => SessionNotFound(calls[c2].outcome)

\* C2: when scoring events on one item have interleaved and all have ended,
\* none has failed and the item's counters are those of the events applied
\* one after the other in some order.
C2_NoLostUpdate ==
    ( /\ NoCallInFlight
      /\ \A c \in Calls : calls[c].op \in {"idle", "update_progress"} )
    => \A v \in VocabularyIds :
          /\ \A c \in EventsOn(v) : Succeeded(c)
          /\ CountersOf(v) \in SerialOutcomes(v)

\* C3 as stated: of two submissions of a quiz one after the other, the second
\* fails with SessionNotFound whether the first succeeded or failed with
\* AnswerCountMismatch.
C3_SecondSubmitAlwaysNotFound ==
    \A c1, c2 \in Calls :
        ( /\ c2 = c1 + 1
          /\ IsSubmit(c1) /\ IsSubmit(c2)
          /\ calls[c1].quiz_id = calls[c2].quiz_id
          /\ Done(c1) /\ Done(c2)
          /\ Succeeded(c1) \/ AnswerCountMismatch(calls[c1].outcome) )
        => SessionNotFound(calls[c2].outcome)

\* C3 amended: a submission that follows a successful submission of the same
\* quiz fails with SessionNotFound; one that directly follows a submission
\* rejected with AnswerCountMismatch does not fail with SessionNotFound.
C3_SecondSubmitAfterSuccess ==
    \A c1, c2 \in Calls :
        ( /\ c1 < c2
          /\ IsSubmit(c1) /\ IsSubmit(c2)
          /\ calls[c1].quiz_id = calls[c2].quiz_id
          /\ Done(c1) /\ Done(c2) )
        => /\ Succeeded(c1) => SessionNotFound(calls[c2].outcome)
           /\ (c2 = c1 + 1 /\ AnswerCountMismatch(calls[c1].outcome))
                 => ~SessionNotFound(calls[c2].outcome)

\* C3 witness: a quiz was submitted successfully and then submitted again.
C3_Witness ==
    \E c1, c2 \in Calls :
        /\ c2 = c1 + 1
        /\ IsSubmit(c1) /\ IsSubmit(c2)
        /\ calls[c1].quiz_id = calls[c2].quiz_id
        /\ Succeeded(c1)
        /\ SessionNotFound(calls[c2].outcome)

\* C4: a submission of an id that is not in the active table ends at once with
\* SessionNotFound, and the table, the progress rows and the history are as
\* before.
C4_AbsentSessionRejected ==
    [][\A c \in Calls :
          ( /\ calls[c].pc = "idle"
            /\ calls'[c].op = "submit_quiz"
            /\ calls'[c].quiz_id \notin DOMAIN active_quizzes )
          => /\ calls'[c].pc = "done"
             /\ SessionNotFound(calls'[c].outcome)
             /\ calls'[c].outcome.msg.quiz_id = calls'[c].quiz_id
             /\ UNCHANGED <<active_quizzes, user_progress, quiz_results, vocabulary>>]_vars

\* C4 witness: an id never issued was submitted and rejected while a built
\* session was waiting.
C4_Witness ==
    \E c \in Calls :
        /\ IsSubmit(c)
        /\ BuildOf(calls[c].quiz_id) = {}
        /\ SessionNotFound(calls[c].outcome)
        /\ DOMAIN active_quizzes # {}

\* C5: a submission of an active quiz with a number of answers other than its
\* number of questions ends at once with AnswerCountMismatch carrying the
\* expected count, and the session, the progress rows and the history are as
\* before.
C5_WrongCountRejected ==
    [][\A c \in Calls :
          ( /\ calls[c].pc = "idle"
            /\ calls'[c].op = "submit_quiz"
            /\ calls'[c].quiz_id \in DOMAIN active_quizzes
            /\ Len(calls'[c].answers) #
                  Len(active_quizzes[calls'[c].quiz_id].questions) )
          => /\ calls'[c].pc = "done"
             /\ AnswerCountMismatch(calls'[c].outcome)
             /\ calls'[c].outcome.msg.expected =
                   Len(active_quizzes[calls'[c].quiz_id].questions)
             /\ UNCHANGED <<active_quizzes, user_progress, quiz_results, vocabulary>>]_vars

\* C5 witness: a quiz of two questions was submitted with one answer and
\* rejected, and its session is still active.
C5_Witness ==
    \E c \in Calls :
        /\ IsSubmit(c)
        /\ AnswerCountMismatch(calls[c].outcome)
        /\ calls[c].outcome.msg.expected = 2
        /\ Len(calls[c].answers) = 1
        /\ calls[c].quiz_id \in DOMAIN active_quizzes

\* C6: when no call is in flight, the history holds as many rows as
\* submissions have returned successfully.
C6_OneHistoryRowPerSuccess ==
    NoCallInFlight =>
        Len(quiz_results) = Cardinality({c \in Calls : IsSubmit(c) /\ Succeeded(c)})

\* C7: a store access that fails during a submission ends the call with a
\* store-level error, which is no ValueError and which the handler reports as
\* unexpected, and the session is still in the active table.
C7_StoreFailureKeepsSession ==
    [][\A c \in Calls :
          ( /\ IsSubmit(c)
            /\ InFlight(c)
            /\ ~db_available
            /\ calls'[c] # calls[c] )
          => /\ calls'[c].pc = "done"
             /\ StoreError(calls'[c].outcome)
             /\ ~SessionNotFound(calls'[c].outcome)
             /\ ~AnswerCountMismatch(calls'[c].outcome)
             /\ SubmitResponse(calls'[c].outcome) = "Unexpected error"
             /\ calls[c].quiz_id \in DOMAIN active_quizzes'
             /\ UNCHANGED active_quizzes]_vars

\* C7 witness: a submission failed on the store and a later submission of the
\* same quiz succeeded.
C7_Witness ==
    \E c1, c2 \in Calls :
        /\ c1 < c2
        /\ IsSubmit(c1) /\ IsSubmit(c2)
        /\ calls[c1].quiz_id = calls[c2].quiz_id
        /\ StoreError(calls[c1].outcome)
        /\ Succeeded(c2)

\* C8: a submission that has passed its checks does not end before every
\* question of its quiz has been scored and has had its progress update
\* attempted.
C8_FailureDoesNotStopScoring ==
    [][\A c \in Calls :
          ( /\ IsSubmit(c)
            /\ InFlight(c)
            /\ calls'[c].pc = "done" )
          => calls[c].i = Len(calls[c].quiz[1].questions)]_vars

\* C9: when a submission fails on the store and the next call submits the
\* same quiz with the same answers and succeeds, and nothing else has scored
\* anything, every item of the quiz has been seen exactly once.
C9_RetryScoresOnce ==
    \A c1, c2 \in Calls :
        ( /\ c2 = c1 + 1
          /\ IsSubmit(c1) /\ IsSubmit(c2)
          /\ calls[c1].quiz_id = calls[c2].quiz_id
          /\ calls[c1].answers = calls[c2].answers
          /\ StoreError(calls[c1].outcome)
          /\ Succeeded(c2)
          /\ \A c \in Calls \ {c1, c2} : calls[c].op = "idle" \/ IsBuild(c) )
        => LET questions == QuestionsOf(calls[c1].quiz_id)
           IN  \A k \in 1..Len(questions) :
                  /\ CountersOf(questions[k].vocab_id) # <<>>
                  /\ CountersOf(questions[k].vocab_id)[1].times_seen = 1

\* C10: every progress row has a mastery level in 0..5; no scoring event
\* fails; an incorrect answer on a row at mastery 0 is applied and leaves it at
\* 0, and a correct answer on a row at mastery 5 is applied and leaves it at 5.
C10_MasteryStaysInRange ==
    [][/\ \A r \in user_progress' : r.mastery_level \in 0..5
       /\ \A c \in Calls :
             (calls[c].pc = "progress_select" /\ calls'[c] # calls[c])
             => calls'[c].pc = "progress_write"
       /\ \A c \in Calls :
             (calls[c].pc = "progress_write" /\ calls'[c] # calls[c])
             => LET before == SelectProgress(calls[c].vocabulary_id)
                    after == SelectProgress(calls[c].vocabulary_id)'
                    stays == \/ before[1].mastery_level = 0 /\ ~calls[c].correct
                             \/ before[1].mastery_level = 5 /\ calls[c].correct
                IN  (before # <<>> /\ stays)
                    => /\ after # <<>>
                       /\ after[1].mastery_level = before[1].mastery_level
                       /\ after[1].times_seen = before[1].times_seen + 1]_vars

\* C10 witness: a row at mastery 5 has taken one more correct answer.
C10_Witness ==
    \E r \in user_progress : r.mastery_level = 5 /\ r.times_correct = 6

\* C11: in every state every progress row has times_seen equal to
\* times_correct plus times_incorrect, whatever scoring events, submissions
\* and clears have run.
C11_SeenIsCorrectPlusIncorrect ==
    \A r \in user_progress :
        /\ r.times_seen = r.times_correct + r.times_incorrect
        /\ r.times_seen >= 1 /\ r.times_correct >= 0 /\ r.times_incorrect >= 0

\* C11 witness: after a submission was recorded, a row has been scored three
\* times, correctly and incorrectly.
C11_Witness ==
    /\ quiz_results # <<>>
    /\ \E r \in user_progress :
          r.times_seen = 3 /\ r.times_correct >= 1 /\ r.times_incorrect >= 1

\* C12: every scoring event is applied as the reference policy says.  With no
\* row it creates one with mastery 1 if correct else 0, times_seen 1, one of
\* times_correct/times_incorrect 1, last_reviewed now and next_review now + 1
\* day.  With a row it moves mastery one step within 0..5, adds 1 to
\* times_seen and to one of the two counters, and sets next_review to now plus
\* 1, 3, 7, 14, 30, 60 days for the new mastery 0..5.  So a correct answer on
\* a row at mastery 1 gives mastery 2 and 7 days, and an incorrect answer on a
\* row at mastery 2 gives mastery 1 and 3 days.
C12_UpdateFollowsPolicy ==
    [][\A c \in Calls :
          /\ (calls[c].pc = "progress_select" /\ calls'[c] # calls[c])
                => calls'[c].pc = "progress_write" /\ calls'[c].now = clock
          /\ (calls[c].pc = "progress_write" /\ calls'[c] # calls[c])
                => LET before == SelectProgress(calls[c].vocabulary_id)
                       after == SelectProgress(calls[c].vocabulary_id)'
                       correct == calls[c].correct
                       now == calls[c].now
                       offsetDays == [m \in 0..5 |->
                                        CASE m = 0 -> 1 [] m = 1 -> 3 [] m = 2 -> 7
                                          [] m = 3 -> 14 [] m = 4 -> 30 [] m = 5 -> 60]
                       step == IF correct THEN 1 ELSE -1
                       moved == before[1].mastery_level + step
                       clamped == IF moved < 0 THEN 0 ELSE IF moved > 5 THEN 5 ELSE moved
                       right == IF correct THEN 1 ELSE 0
                   IN  /\ calls'[c].pc = "progress_commit"
                       /\ after # <<>>
                       /\ after[1].last_reviewed = now
                       /\ before = <<>> =>
                             /\ after[1].mastery_level = right
                             /\ after[1].times_seen = 1
                             /\ after[1].times_correct = right
                             /\ after[1].times_incorrect = 1 - right
                             /\ after[1].next_review = now + 1
                       /\ before # <<>> =>
                             /\ after[1].mastery_level = clamped
                             /\ after[1].times_seen = before[1].times_seen + 1
                             /\ after[1].times_correct = before[1].times_correct + right
                             /\ after[1].times_incorrect =
                                   before[1].times_incorrect + (1 - right)
                             /\ after[1].next_review = now + offsetDays[clamped]
                       /\ (before # <<>> /\ before[1].mastery_level = 1 /\ correct) =>
                             (after[1].mastery_level = 2 /\ after[1].next_review = now + 7)
                       /\ (before # <<>> /\ before[1].mastery_level = 2 /\ ~correct) =>
                             (after[1].mastery_level = 1 /\ after[1].next_review = now + 3)
                       /\ \A r \in user_progress :
                             r.vocabulary_id # calls[c].vocabulary_id => r \in user_progress'
      ]_vars

\* C12 witness: an item answered correctly, correctly and then incorrectly on
\* a later day is at mastery 1 with its review due 3 days after the last
\* answer.
C12_Witness ==
    \E r \in user_progress :
        /\ r.times_seen = 3 /\ r.times_correct = 2 /\ r.times_incorrect = 1
        /\ r.mastery_level = 1
        /\ r.last_reviewed = 1
        /\ r.next_review = r.last_reviewed + 3

\* C13: every progress row has its review due offsetDays(mastery) days after
\* it was last reviewed, with offsetDays 1, 3, 7, 14, 30, 60 for mastery
\* 0..5, after a first event as after a later one.
C13_ReviewDueFollowsMastery ==
    \A r \in user_progress :
        LET offsetDays == [m \in 0..5 |->
                             CASE m = 0 -> 1 [] m = 1 -> 3 [] m = 2 -> 7
                               [] m = 3 -> 14 [] m = 4 -> 30 [] m = 5 -> 60]
        IN  /\ r.mastery_level \in 0..5
            /\ r.next_review = r.last_reviewed + offsetDays[r.mastery_level]

\* the check_answer call in slot c, its question and its result
IsCheck(c) == calls[c].op = "check_answer" /\ Done(c)

\* C14: check_answer always returns a result, and an empty or blank raw
\* answer is scored incorrect on every question whose expected answer is not
\* empty, translation or multiple choice.
C14_EmptyAnswerIsIncorrect ==
    \A c \in Calls :
        IsCheck(c) =>
            /\ Succeeded(c)
            /\ ( /\ strip(calls[c].user_answer) = <<>>
                 /\ calls[c].question[1].correct_answer # <<>> )
               => ~calls[c].outcome.value[1].is_correct

\* C15: on a translation question the answer is correct exactly when,
\* trimmed and lower-cased, it equals a variant, is part of a variant or has a
\* variant as a part, the variants being the comma-separated pieces of the
\* stored expected answer, trimmed and lower-cased; a wrong answer's feedback
\* ends with the stored expected answer unchanged; for "person, people" the
\* answers person, people and persons are correct.
C15_TranslationMatching ==
    \A c \in Calls :
        (IsCheck(c) /\ calls[c].question[1].question_type = "translation") =>
            LET stored == calls[c].question[1].correct_answer
                result == calls[c].outcome.value[1]
                normalized == lower(strip(calls[c].user_answer))
                pieces == split(stored)
                variants == {lower(strip(pieces[k])) : k \in 1..Len(pieces)}
                matches == \E v \in variants :
                              \/ normalized = v
                              \/ contains(v, normalized)
                              \/ contains(normalized, v)
            IN  /\ Succeeded(c)
                /\ result.is_correct <=> matches
                /\ ~result.is_correct =>
                      result.feedback[Len(result.feedback)] = stored
                /\ ( /\ stored = person \o <<",", " ">> \o people
                     /\ calls[c].user_answer \in {person, people, person \o <<"s">>} )
                   => result.is_correct

\* C15 witness: "persons" was accepted for "person, people".
C15_Witness ==
    \E c \in Calls :
        /\ IsCheck(c)
        /\ calls[c].question[1].question_type = "translation"
        /\ calls[c].question[1].correct_answer = person \o <<",", " ">> \o people
        /\ calls[c].user_answer = person \o <<"s">>
        /\ calls[c].outcome.value[1].is_correct

\* C16: on a multiple-choice question the answer is correct exactly when,
\* trimmed and upper-cased, it is the stored expected letter; a wrong answer's
\* feedback names that letter and the candidate stored under it.
C16_LetterMatching ==
    \A c \in Calls :
        (IsCheck(c) /\ calls[c].question[1].question_type = "multiple_choice") =>
            LET question == calls[c].question[1]
                result == calls[c].outcome.value[1]
                typed == strip(calls[c].user_answer)
                letter == IF typed \in {<<"a">>, <<"A">>} THEN <<"A">>
                          ELSE IF typed \in {<<"b">>, <<"B">>} THEN <<"B">>
                          ELSE IF typed \in {<<"c">>, <<"C">>} THEN <<"C">>
                          ELSE IF typed \in {<<"d">>, <<"D">>} THEN <<"D">>
                          ELSE <<>>
            IN  /\ Succeeded(c)
                /\ result.is_correct <=> letter = question.correct_answer
                /\ ~result.is_correct =>
                      /\ result.feedback[2] = question.correct_answer
                      /\ result.feedback[3] = question.choices[question.correct_answer]

\* C16 witness: " b " was accepted for the letter B.
C16_Witness ==
    \E c \in Calls :
        /\ IsCheck(c)
        /\ calls[c].question[1].question_type = "multiple_choice"
        /\ calls[c].question[1].correct_answer = <<"B">>
        /\ calls[c].user_answer = <<" ", "b", " ">>
        /\ calls[c].outcome.value[1].is_correct

\* C17: a multiple-choice build whose pool holds fewer than 4 items ends with
\* InsufficientVocabulary, whatever count was asked for, and registers no
\* session: the active table is as before.
C17_SmallPoolRejected ==
    [][\A c \in Calls :
          ( /\ calls[c].pc = "fetch_choice_vocabulary"
            /\ calls'[c] # calls[c]
            /\ Cardinality(LevelPool(calls[c].hsk_level)) < 4 )
          => /\ calls'[c].pc = "done"
             /\ InsufficientVocabulary(calls'[c].outcome)
             /\ UNCHANGED <<active_quizzes, uuid_count>>]_vars

\* C17 witness: a multiple-choice build of one question on a level of two
\* items was rejected.
C17_Witness ==
    \E c \in Calls :
        /\ IsChoiceBuild(c)
        /\ Cardinality(LevelPool(calls[c].hsk_level)) = 2
        /\ calls[c].num_questions = 1
        /\ InsufficientVocabulary(calls[c].outcome)
        /\ active_quizzes = <<>>

\* C18: a multiple-choice build fails with InsufficientVocabulary only when
\* the whole store holds fewer than 4 items, so a level of 1 to 3 items builds
\* when the store holds 4; and the three other candidates of a question are
\* the translations of three distinct items of the store other than the target.
C18_DistractorsFromWholeStore ==
    \A c \in Calls :
        (IsChoiceBuild(c) /\ Done(c)) =>
            /\ InsufficientVocabulary(calls[c].outcome) => Len(vocabulary) < 4
            /\ ( /\ Len(vocabulary) >= 4
                 /\ Cardinality(LevelPool(calls[c].hsk_level)) \in 1..3 )
               => Succeeded(c)
            /\ Succeeded(c) =>
                  \A k \in 1..Len(calls[c].outcome.value[1].questions) :
                     LET question == calls[c].outcome.value[1].questions[k]
                         others == {letter \in DOMAIN question.choices :
                                       letter # question.correct_answer}
                     IN  \E items \in [others -> 1..Len(vocabulary)] :
                            /\ \A a, b \in others : a # b => items[a] # items[b]
                            /\ \A a \in others :
                                  /\ vocabulary[items[a]].id # question.vocab_id
                                  /\ vocabulary[items[a]].english = question.choices[a]

\* C19: a build of either kind for a level that holds no item succeeds and
\* registers a session of zero questions, and the first submission of that
\* session with an empty answer list succeeds with score 0.
C19_EmptyLevelBuilds ==
    /\ \A c \in Calls :
          (IsBuild(c) /\ Done(c) /\ LevelPool(calls[c].hsk_level) = {}) =>
              /\ Succeeded(c)
              /\ calls[c].outcome.value[1].questions = <<>>
    /\ \A c \in Calls :
          ( /\ IsSubmit(c) /\ Done(c)
            /\ calls[c].answers = <<>>
            /\ BuildOf(calls[c].quiz_id) # {}
            /\ \A b \in BuildOf(calls[c].quiz_id) : LevelPool(calls[b].hsk_level) = {}
            /\ \A d \in 1..(c - 1) :
                  ~(IsSubmit(d) /\ calls[d].quiz_id = calls[c].quiz_id) )
          => /\ Succeeded(c)
             /\ calls[c].outcome.value[1].total_questions = 0
             /\ calls[c].outcome.value[1].score_percentage = 0

\* C20: every build that succeeded returned min(count, pool size) questions,
\* the pool being the items of the level asked for; the questions' items are
\* pairwise different and all of that level; the session registered is the
\* one returned.
C20_QuestionCountIsMin ==
    \A c \in Calls :
        (IsBuild(c) /\ Succeeded(c)) =>
            LET quiz == calls[c].outcome.value[1]
                pool == LevelPool(calls[c].hsk_level)
            IN  /\ Len(quiz.questions) = Min(calls[c].num_questions, Cardinality(pool))
                /\ \A a, b \in 1..Len(quiz.questions) :
                      a # b => quiz.questions[a].vocab_id # quiz.questions[b].vocab_id
                /\ \A a \in 1..Len(quiz.questions) :
                      \E v \in pool : v.id = quiz.questions[a].vocab_id
                /\ quiz.hsk_level = calls[c].hsk_level

\* C20 witness: a multiple-choice build asked for more questions than its
\* level of four items holds and returned four.
C20_Witness ==
    \E c \in Calls :
        /\ IsChoiceBuild(c) /\ Succeeded(c)
        /\ calls[c].num_questions > 4
        /\ Len(calls[c].outcome.value[1].questions) = 4
        /\ calls[c].outcome.value[1].quiz_id \in DOMAIN active_quizzes

\* C21: every question of a built multiple-choice quiz has exactly the keys A,
\* B, C, D, its expected answer is one of them, the candidate under the
\* expected letter is the target item's translation, and the other three
\* candidates are the translations of three distinct items other than the
\* target.
C21_FourLetteredChoices ==
    \A c \in Calls :
        (IsChoiceBuild(c) /\ Succeeded(c)) =>
            LET quiz == calls[c].outcome.value[1]
            IN  /\ quiz.quiz_id \in DOMAIN active_quizzes =>
                      active_quizzes[quiz.quiz_id].questions = quiz.questions
                /\ \A k \in 1..Len(quiz.questions) :
                      LET question == quiz.questions[k]
                          keys == {<<"A">>, <<"B">>, <<"C">>, <<"D">>}
                          target == CHOOSE j \in 1..Len(vocabulary) :
                                        vocabulary[j].id = question.vocab_id
                          rest == keys \ {question.correct_answer}
                      IN  /\ question.question_type = "multiple_choice"
                          /\ DOMAIN question.choices = keys
                          /\ question.correct_answer \in keys
                          /\ \E j \in 1..Len(vocabulary) :
                                vocabulary[j].id = question.vocab_id
                          /\ question.choices[question.correct_answer] =
                                vocabulary[target].english
                          /\ \E items \in [rest -> 1..Len(vocabulary)] :
                                /\ \A a, b \in rest : a # b => items[a] # items[b]
                                /\ \A a \in rest :
                                      /\ items[a] # target
                                      /\ vocabulary[items[a]].english = question.choices[a]

\* C21 witness: a built multiple-choice quiz of four questions whose first
\* question expects the letter D.
C21_Witness ==
    \E c \in Calls :
        /\ IsChoiceBuild(c) /\ Succeeded(c)
        /\ Len(calls[c].outcome.value[1].questions) = 4
        /\ calls[c].outcome.value[1].questions[1].correct_answer = <<"D">>

\* C22: the result of a successful submission has total_questions the number
\* of questions of the quiz, correct_answers the number of per-question
\* records marked correct, incorrect_answers the difference, one record per
\* question in question order, and score_percentage (kept in tenths) the
\* tenth nearest to correct_answers / total_questions * 100, or 0 for a quiz
\* without questions; 1 of 3 gives 33.3.
C22_SubmitResultNumbers ==
    [][\A c \in Calls :
          ( /\ IsSubmit(c)
            /\ calls[c].pc = "record_commit"
            /\ calls'[c].pc = "done"
            /\ calls'[c].outcome.exc = "none" )
          => LET result == calls'[c].outcome.value[1]
                 questions == active_quizzes[calls[c].quiz_id].questions
                 total == Len(questions)
                 marked == Cardinality({k \in 1..Len(result.results) :
                                           result.results[k].is_correct})
                 exact == marked * 1000
                 off == exact - result.score_percentage * total
             IN  /\ result.quiz_id = calls[c].quiz_id
                 /\ result.total_questions = total
                 /\ result.correct_answers = marked
                 /\ result.incorrect_answers = total - marked
                 /\ Len(result.results) = total
                 /\ \A k \in 1..total :
                       /\ result.results[k].question_number = k
                       /\ result.results[k].question = questions[k].question
                       /\ result.results[k].correct_answer = questions[k].correct_answer
                       /\ result.results[k].user_answer = calls[c].answers[k]
                 /\ total = 0 => result.score_percentage = 0
                 /\ total > 0 => (2 * off <= total /\ 2 * (0 - off) <= total)
                 /\ (total = 3 /\ marked = 1) => result.score_percentage = 333]_vars

\* C22 witness: a quiz of three questions was submitted with one correct
\* answer and scored 33.3.
C22_Witness ==
    \E c \in Calls :
        /\ IsSubmit(c) /\ Succeeded(c)
        /\ calls[c].outcome.value[1].total_questions = 3
        /\ calls[c].outcome.value[1].correct_answers = 1
        /\ calls[c].outcome.value[1].incorrect_answers = 2
        /\ calls[c].outcome.value[1].score_percentage = 333

\* what holds after a confirmed clear has returned: the vocabulary is the one
\* loaded; while no later call has started there is no progress row and no
\* history row; statistics asked next report nothing studied; a scoring
\* event applied next is applied as the item's first
C23_AfterClear ==
    \A c \in Calls :
        IsConfirmedClear(c) =>
            /\ vocabulary = VocabularyRows
            /\ (c = MaxCalls \/ calls[Min(c + 1, MaxCalls)].pc = "idle") =>
                  (user_progress = {} /\ quiz_results = <<>>)
            /\ (c < MaxCalls /\ IsStats(Min(c + 1, MaxCalls)) /\ Done(Min(c + 1, MaxCalls))) =>
                  LET stats == calls[c + 1].outcome.value[1]
                  IN  /\ Succeeded(c + 1)
                      /\ stats.total_words_studied = 0
                      /\ stats.total_reviews = 0
                      /\ stats.mastery_breakdown = <<>>
            /\ (c < MaxCalls /\ IsEvent(Min(c + 1, MaxCalls)) /\ Done(Min(c + 1, MaxCalls))
                  /\ (c + 1 = MaxCalls \/ calls[Min(c + 2, MaxCalls)].pc = "idle")) =>
                  /\ Succeeded(c + 1)
                  /\ CountersOf(calls[c + 1].vocabulary_id) =
                        ApplyEvent(<<>>, calls[c + 1].correct)
                  /\ user_progress =
                        {SelectProgress(calls[c + 1].vocabulary_id)[1]}

\* C23: clear_progress without confirm answers at once and changes no table
\* and no session; with confirm, when it returns, every progress row and
\* every history row is deleted, and no step of it changes the vocabulary or
\* a session; afterwards the statistics report zero words studied, the
\* history is empty and the next scoring event on an item is its first.
C23_ClearProgress ==
    [][/\ \A c \in Calls :
             ( /\ calls[c].pc = "idle"
               /\ calls'[c].op = "clear_progress"
               /\ ~calls'[c].confirm )
             => /\ calls'[c].pc = "done"
                /\ calls'[c].outcome = Returned("cancelled")
                /\ UNCHANGED <<vocabulary, user_progress, quiz_results, active_quizzes>>
       /\ \A c \in Calls :
             (calls'[c].op = "clear_progress" /\ calls'[c] # calls[c])
             => UNCHANGED <<vocabulary, active_quizzes>>
       /\ \A c \in Calls :
             (calls[c].pc = "clear_commit" /\ calls'[c] # calls[c])
             => /\ calls'[c].outcome = Returned("cleared")
                /\ user_progress' = {}
                /\ quiz_results' = <<>>
       /\ C23_AfterClear']_vars

\* C23 witness: a quiz with questions was built and submitted, leaving
\* progress rows and a history row, and a confirmed clear has then returned.
C23_Witness ==
    \E c \in Calls :
        /\ c + 2 \in Calls
        /\ IsBuild(c) /\ Succeeded(c)
        /\ IsSubmit(c + 1) /\ Succeeded(c + 1)
        /\ calls[c + 1].outcome.value[1].total_questions > 0
        /\ IsConfirmedClear(c + 2)
        /\ user_progress = {} /\ quiz_results = <<>>
        /\ vocabulary = VocabularyRows

\* C26: the statistics a get_progress_stats call returns count the scoring
\* events since the last confirmed clear: total_words_studied is the number
\* of distinct items scored, total_reviews the number of events and the sum
\* of total_correct and total_incorrect, total_correct the number of correct
\* events, and the counts of the mastery breakdown sum to
\* total_words_studied; with no event all of them are 0.
C26_StatsCountEvents ==
    \A d \in Calls :
        (IsStats(d) /\ Done(d)) =>
            LET events == ScoredBetween(LastClearBefore(d), d)
                stats == calls[d].outcome.value[1]
            IN  /\ Succeeded(d)
                /\ stats.total_words_studied = Cardinality({e.item : e \in events})
                /\ stats.total_reviews = Cardinality(events)
                /\ stats.total_reviews = stats.total_correct + stats.total_incorrect
                /\ stats.total_correct = Cardinality({e \in events : e.bit})
                /\ SumCounts(stats.mastery_breakdown) = stats.total_words_studied
                /\ \A m \in DOMAIN stats.mastery_breakdown :
                      m \in 0..5 /\ stats.mastery_breakdown[m] >= 1
                /\ events = {} =>
                      /\ stats.total_words_studied = 0 /\ stats.total_reviews = 0
                      /\ stats.total_correct = 0 /\ stats.total_incorrect = 0
                      /\ stats.accuracy = 0
                      /\ stats.mastery_breakdown = <<>>

\* C26 witness: one item was scored twice, once correctly and once not, and
\* the statistics report one word studied and two reviews.
C26_Witness ==
    \E d \in Calls :
        /\ IsStats(d) /\ Succeeded(d)
        /\ calls[d].outcome.value[1].total_words_studied = 1
        /\ calls[d].outcome.value[1].total_reviews = 2
        /\ calls[d].outcome.value[1].total_correct = 1
        /\ calls[d].outcome.value[1].total_incorrect = 1

\* C24: a submission that passes its checks scores its questions one after
\* the other, each exactly once: for question i it applies one scoring event
\* to the progress row of the question's item, with the verdict check_answer
\* gives on the i-th answer, and leaves every other row as it is; no step of a
\* submission changes the vocabulary or another session, and the verdicts are
\* those of the per-question records returned.
C24_OneEventPerQuestion ==
    [][\A c \in Calls :
          (calls'[c].op = "submit_quiz" /\ calls'[c] # calls[c]) =>
             LET q == calls'[c].quiz_id
                 questions == active_quizzes[q].questions
                 i == calls[c].i
                 v == questions[i].vocab_id
                 bit == check_answer(questions[i], calls[c].answers[i]).is_correct
                 before == {r \in user_progress : r.vocabulary_id = v}
                 after == {r \in user_progress' : r.vocabulary_id = v}
                 first == IF Len(questions) = 0
                          THEN calls'[c].pc = "record_insert"
                          ELSE calls'[c].pc = "progress_select" /\ calls'[c].i = 1
             IN  /\ vocabulary' = vocabulary
                 /\ \A o \in DOMAIN active_quizzes \ {q} :
                       o \in DOMAIN active_quizzes' /\ active_quizzes'[o] = active_quizzes[o]
                 /\ calls[c].pc # "progress_write" => user_progress' = user_progress
                 /\ (calls[c].pc = "idle" /\ calls'[c].pc # "done") => first
                 /\ calls[c].pc = "progress_select" =>
                       /\ calls'[c].pc = "progress_write" /\ calls'[c].i = i
                       /\ calls'[c].vocabulary_id = v /\ calls'[c].correct = bit
                 /\ calls[c].pc = "progress_write" =>
                       /\ calls'[c].pc = "progress_commit" /\ calls'[c].i = i
                       /\ Cardinality(before) <= 1 /\ Cardinality(after) = 1
                       /\ {Counters(r) : r \in after} =
                             {x[1] : x \in {ApplyEvent(IF before = {} THEN <<>>
                                                       ELSE <<Counters(CHOOSE r \in before : TRUE)>>,
                                                       bit)}}
                       /\ user_progress' \ after = user_progress \ before
                 /\ calls[c].pc = "progress_commit" =>
                       IF i < Len(questions)
                       THEN calls'[c].pc = "progress_select" /\ calls'[c].i = i + 1
                       ELSE calls'[c].pc = "record_insert"
                 /\ calls[c].pc = "record_commit" =>
                       /\ calls'[c].pc = "done" /\ calls'[c].outcome.exc = "none"
                       /\ i = Len(questions)
                       /\ \A k \in 1..Len(questions) :
                             calls'[c].outcome.value[1].results[k].is_correct =
                                check_answer(questions[k], calls[c].answers[k]).is_correct
      ]_vars

\* C24 witness: a quiz of two questions was submitted with one correct and
\* one incorrect answer while another session was active; each of the two
\* items has been seen once, one correctly and one not.
C24_Witness ==
    \E c \in Calls :
        /\ IsSubmit(c) /\ Succeeded(c)
        /\ calls[c].outcome.value[1].total_questions = 2
        /\ calls[c].outcome.value[1].correct_answers = 1
        /\ DOMAIN active_quizzes # {}
        /\ Cardinality(user_progress) = 2
        /\ \A r \in user_progress : r.times_seen = 1
        /\ \E r \in user_progress : r.times_correct = 1
        /\ \E r \in user_progress : r.times_incorrect = 1

\* the sessions in the table are those built and not yet submitted with
\* success, each as its build returned it
C28_TableIsBuiltMinusSubmitted ==
    /\ DOMAIN active_quizzes \subseteq 1..uuid_count
    /\ \A b \in Calls :
          (IsBuild(b) /\ Succeeded(b)) =>
              LET quiz == calls[b].outcome.value[1]
                  removed == \E c \in Calls : /\ IsSubmit(c) /\ Succeeded(c)
                                              /\ calls[c].quiz_id = quiz.quiz_id
              IN  /\ quiz.quiz_id \in DOMAIN active_quizzes <=> ~removed
                  /\ quiz.quiz_id \in DOMAIN active_quizzes =>
                        active_quizzes[quiz.quiz_id] = quiz

\* C28: a session in the active table stays in it, unchanged, across every
\* step but the one in which a submission of its own quiz_id returns with
\* success; a session entering the table does so under an id never issued
\* before, so an id once removed is never resolvable again.
C28_BuiltThenRemoved ==
    [][/\ \A q \in DOMAIN active_quizzes :
             /\ q \in DOMAIN active_quizzes' => active_quizzes'[q] = active_quizzes[q]
             /\ q \notin DOMAIN active_quizzes' =>
                   \E c \in Calls :
                      /\ IsSubmit(c) /\ InFlight(c)
                      /\ calls[c].quiz_id = q
                      /\ calls'[c].pc = "done"
                      /\ calls'[c].outcome.exc = "none"
       /\ \A q \in DOMAIN active_quizzes' \ DOMAIN active_quizzes :
             q > uuid_count /\ q <= uuid_count'
       /\ uuid_count' >= uuid_count
       /\ C28_TableIsBuiltMinusSubmitted']_vars

\* C28 witness: the first session is still in the table, as built, after a
\* second session was built and submitted with success.
C28_Witness ==
    \E b1, b2, c \in Calls :
        /\ b1 < b2 /\ b2 < c
        /\ IsBuild(b1) /\ Succeeded(b1)
        /\ IsBuild(b2) /\ Succeeded(b2)
        /\ IsSubmit(c) /\ Succeeded(c)
        /\ calls[c].quiz_id = calls[b2].outcome.value[1].quiz_id
        /\ calls[b2].outcome.value[1].quiz_id \notin DOMAIN active_quizzes
        /\ calls[b1].outcome.value[1].quiz_id \in DOMAIN active_quizzes
        /\ active_quizzes[calls[b1].outcome.value[1].quiz_id] = calls[b1].outcome.value[1]

\* every item has a level in 1..6, and no two items have the same script
\* form at the same level, or the same id
C25_VocabularyValid ==
    /\ \A k \in 1..Len(vocabulary) : vocabulary[k].hsk_level \in 1..6
    /\ \A j, k \in 1..Len(vocabulary) :
          j # k => /\ vocabulary[j].id # vocabulary[k].id
                   /\ ~( /\ vocabulary[j].chinese = vocabulary[k].chinese
                         /\ vocabulary[j].hsk_level = vocabulary[k].hsk_level )

\* C25: add_vocabulary with a level outside 1..6 ends at once with
\* InvalidLevel and adds nothing; with the script form and level of an item
\* already stored it is rejected and adds nothing; so every item has a level
\* in 1..6 and the (script form, level) pairs are pairwise different; the
\* items stored stay as they are, and no step of any other operation touches
\* the vocabulary.
C25_AddVocabulary ==
    [][/\ \A c \in Calls :
             (calls[c].pc = "idle" /\ calls'[c].op = "add_vocabulary") =>
                LET rejected == calls'[c].hsk_level \notin 1..6
                IN  /\ rejected <=> calls'[c].pc = "done"
                    /\ rejected => InvalidLevel(calls'[c].outcome)
                    /\ rejected => calls'[c].outcome.msg.got = calls'[c].hsk_level
                    /\ vocabulary' = vocabulary
       /\ \A c \in Calls :
             (calls[c].pc = "insert_vocabulary" /\ calls'[c] # calls[c]) =>
                LET duplicate == \E k \in 1..Len(vocabulary) :
                                    /\ vocabulary[k].chinese = calls[c].item[1].chinese
                                    /\ vocabulary[k].hsk_level = calls[c].hsk_level
                IN  IF duplicate
                    THEN /\ calls'[c].pc = "done"
                         /\ calls'[c].outcome.exc = "IntegrityError"
                         /\ vocabulary' = vocabulary
                    ELSE /\ Len(vocabulary') = Len(vocabulary) + 1
                         /\ vocabulary'[Len(vocabulary')].chinese = calls[c].item[1].chinese
                         /\ vocabulary'[Len(vocabulary')].hsk_level = calls[c].hsk_level
       /\ \A c \in Calls :
             (calls'[c] # calls[c] /\ calls[c].pc # "insert_vocabulary") =>
                vocabulary' = vocabulary
       /\ Len(vocabulary') >= Len(vocabulary)
       /\ \A k \in 1..Len(vocabulary) : vocabulary'[k] = vocabulary[k]
       /\ C25_VocabularyValid']_vars

\* C25 witness: a new item was added at level 6, adding it again was
\* rejected, an addition at level 7 was refused, and the store holds one item
\* more than it was loaded with.
C25_Witness ==
    \E c1, c2, c3 \in Calls :
        /\ IsAdd(c1) /\ Succeeded(c1) /\ calls[c1].hsk_level = 6
        /\ IsAdd(c2) /\ c1 < c2
        /\ calls[c2].item = calls[c1].item /\ calls[c2].hsk_level = 6
        /\ calls[c2].outcome.exc = "IntegrityError"
        /\ IsAdd(c3) /\ calls[c3].hsk_level = 7 /\ InvalidLevel(calls[c3].outcome)
        /\ Len(vocabulary) = Len(VocabularyRows) + 1
        /\ vocabulary[Len(vocabulary)].id = calls[c1].outcome.value[1]

\* C27: within a submission the history row is inserted only when the
\* progress update of every question has been called and has returned; the
\* session is removed from the table only after the insert and its commit,
\* by the submission of its own id, in the step in which that submission
\* returns its result; a submission that ends with an error removes nothing.
C27_SubmitStepOrder ==
    [][/\ quiz_results' # quiz_results =>
             \E c \in Calls :
                /\ IsSubmit(c)
                /\ calls[c].pc = "record_insert" /\ calls'[c].pc = "record_commit"
                /\ calls[c].i = Len(calls[c].quiz[1].questions)
                /\ Len(calls[c].results) = Len(calls[c].quiz[1].questions)
                /\ quiz_results' = Append(quiz_results, quiz_results'[Len(quiz_results')])
       /\ \A q \in DOMAIN active_quizzes \ DOMAIN active_quizzes' :
             \E c \in Calls :
                /\ IsSubmit(c) /\ calls[c].quiz_id = q
                /\ calls[c].pc = "record_commit"
                /\ quiz_results # <<>>
                /\ quiz_results[Len(quiz_results)].correct_answers = calls[c].correct_count
                /\ calls'[c].pc = "done" /\ calls'[c].outcome.exc = "none"
                /\ UNCHANGED <<user_progress, quiz_results>>
       /\ \A c \in Calls :
             (IsSubmit(c) /\ calls[c].pc # "done" /\ calls'[c].pc = "done") =>
                 IF calls'[c].outcome.exc = "none"
                 THEN /\ calls[c].quiz_id \in DOMAIN active_quizzes
                      /\ calls[c].quiz_id \notin DOMAIN active_quizzes'
                 ELSE UNCHANGED active_quizzes
       /\ \A c \in Calls :
             (calls[c].pc = "done" /\ calls[c].op = "submit_quiz") => calls'[c] = calls[c]
      ]_vars

\* C27 witness: a submission of two questions has returned its result: both
\* questions were scored, the history holds its row and the session is gone.
C27_Witness ==
    \E c \in Calls :
        /\ IsSubmit(c) /\ Succeeded(c)
        /\ Len(calls[c].outcome.value[1].results) = 2
        /\ Cardinality(user_progress) = 2
        /\ Len(quiz_results) = 1
        /\ quiz_results[1].total_questions = 2
        /\ calls[c].quiz_id \notin DOMAIN active_quizzes

\* C29: in every state, also when first-time scoring events on one item
\* interleave, no item has two progress rows, every row belongs to an item of
\* the vocabulary, and an item has a row exactly when a scoring event on it
\* has executed its write; no step of a build adds or changes a row.
C29_OneRowPerScoredItem ==
    [][/\ \A v \in VocabularyIds :
             LET rows == {r \in user_progress' : r.vocabulary_id = v}
                 scored == \E c \in Calls :
                              /\ calls'[c].op = "update_progress"
                              /\ calls'[c].vocabulary_id = v
                              /\ \/ calls'[c].pc = "progress_commit"
                                 \/ calls'[c].pc = "done" /\ calls'[c].outcome.exc = "none"
                 tried == \E c \in Calls :
                              /\ calls'[c].op = "update_progress"
                              /\ calls'[c].vocabulary_id = v
                              /\ calls'[c].pc = "done"
             IN  /\ Cardinality(rows) <= 1
                 /\ rows # {} <=> scored
                 /\ tried => rows # {}
       /\ \A r \in user_progress' : r.vocabulary_id \in VocabularyIds
       /\ \A c \in Calls :
             (calls'[c].op = "generate_translation_quiz" /\ calls'[c] # calls[c]) =>
                 user_progress' = user_progress]_vars

\* C29 witness: two first scoring events on one item interleaved, both found
\* no row; one inserted the row, the other was refused by the uniqueness
\* constraint, and the item has one row.
C29_Witness ==
    \E c1, c2 \in Calls :
        /\ c1 # c2
        /\ IsEvent(c1) /\ IsEvent(c2)
        /\ calls[c1].vocabulary_id = calls[c2].vocabulary_id
        /\ Succeeded(c1)
        /\ calls[c2].outcome.exc = "IntegrityError"
        /\ Cardinality({r \in user_progress :
                           r.vocabulary_id = calls[c1].vocabulary_id}) = 1
        /\ \E c3 \in Calls : IsBuild(c3) /\ Succeeded(c3)

\* C30: a successful build of either kind registers the session it returns
\* under a quiz_id that no session built before it has, with the completion
\* flag false, and leaves every session already registered in place and
\* unchanged; get_active_quiz returns the registered session for its id and
\* nothing for an id that was never issued.
C30_BuildRegistersFreshSession ==
    [][\A c \in Calls :
          /\ ( /\ calls[c].pc \in {"fetch_vocabulary", "fetch_choice_vocabulary"}
               /\ Succeeded(c)' )
             => LET quiz == calls'[c].outcome.value[1]
                IN  /\ quiz.quiz_id \notin DOMAIN active_quizzes
                    /\ quiz.quiz_id \notin 0..uuid_count
                    /\ \A b \in Calls \ {c} :
                          (IsBuild(b) /\ Succeeded(b))
                          => calls[b].outcome.value[1].quiz_id # quiz.quiz_id
                    /\ quiz.quiz_id \in DOMAIN active_quizzes'
                    /\ active_quizzes'[quiz.quiz_id] = quiz
                    /\ ~quiz.is_completed
                    /\ \A q \in DOMAIN active_quizzes :
                          /\ q \in DOMAIN active_quizzes'
                          /\ active_quizzes'[q] = active_quizzes[q]
          /\ ( /\ calls[c].pc = "idle"
               /\ calls'[c].op = "get_active_quiz" )
             => /\ Succeeded(c)'
                /\ active_quizzes' = active_quizzes
                /\ calls'[c].quiz_id \in DOMAIN active_quizzes
                   => calls'[c].outcome.value[1] = <<active_quizzes[calls'[c].quiz_id]>>
                /\ calls'[c].quiz_id \notin 1..uuid_count
                   => calls'[c].outcome.value[1] = <<>>
                /\ \A b \in Calls \ {c} :
                      ( /\ IsBuild(b) /\ Succeeded(b)
                        /\ calls[b].outcome.value[1].quiz_id = calls'[c].quiz_id )
                      => calls'[c].outcome.value[1] = calls[b].outcome.value
      ]_vars

\* a translation session and a multiple-choice session were built one after
\* the other, both are registered under their own ids, and lookups have
\* returned the second session for its id and nothing for an id never issued
C30_Witness ==
    \E b1, b2, g \in Calls :
        /\ calls[b1].op = "generate_translation_quiz" /\ Succeeded(b1)
        /\ calls[b2].op = "generate_multiple_choice_quiz" /\ Succeeded(b2)
        /\ calls[b1].outcome.value[1].quiz_id = 1
        /\ calls[b2].outcome.value[1].quiz_id = 2
        /\ get_active_quiz(1) = calls[b1].outcome.value
        /\ get_active_quiz(2) = calls[b2].outcome.value
        /\ get_active_quiz(3) = <<>>
        /\ calls[g].op = "get_active_quiz" /\ calls[g].pc = "done"
        /\ calls[g].quiz_id = 2
        /\ calls[g].outcome.value[1] = calls[b2].outcome.value

====
